---------------------------- MODULE Spec2Model ----------------------------
(***************************************************************************)
(* Model of the retrieval core of the RAG chatbot                          *)
(* (src/app/core/rag_engine.py): query expansion, the search rounds, the   *)
(* fallback search, ranking, context assembly and the quality label that   *)
(* chat() derives from the retrieval result; and of the usage tracker and  *)
(* the chat service in front of it (src/app/services/usage_tracker.py,     *)
(* src/app/services/chat_service.py).                                      *)
(*                                                                         *)
(* Text is modelled by TLA+ strings (Len, \o and SubSeq act on them as on   *)
(* Python str).  Distances are integers counting hundredths: 60 stands for *)
(* the float 0.6, and x * 2.0 is 2 * x.                                     *)
(***************************************************************************)
EXTENDS Integers, Sequences, FiniteSets, TLC

VARIABLES
    pc,            \* position of the call: which step of retrieve_context / chat is next
    query,         \* the query argument of retrieve_context
    max_results,   \* the max_results argument of retrieve_context
    index,         \* the external index: what vector_store.search answers per query class
    all_queries,   \* retrieve_context: all_queries
    round,         \* retrieve_context: position in search_rounds (1..3)
    qi,            \* _execute_search_round: position in config["queries"]
    round_docs,    \* _execute_search_round: round_docs
    seen_hashes,   \* _execute_search_round: seen_hashes
    all_docs,      \* retrieve_context: all_docs
    final_docs,    \* retrieve_context: final_docs
    result,        \* the value retrieve_context returns
    chat_result,   \* the value chat returns
    trace,         \* observation log of the call (search calls, thresholds, stages)
    other,         \* the local state of a second call that is suspended, if any
    usage_data,    \* UsageTracker.usage_data: per user the date, the count, total_messages
    sessions,      \* ChatService.sessions: per session key the list of exchanges
    today,         \* date.today(), as a day number
    now,           \* datetime.now(), as the number of calls served so far
    reply,         \* the value the last call of the chat service returned
    audit          \* observation log of the chat service (who recorded what, calls made)

\* the state of the usage tracker and the chat service
service_vars == << usage_data, sessions, today, now, reply, audit >>

\* the state of the retrieval engine and of its calls
engine_vars == << pc, query, max_results, index, all_queries, round, qi, round_docs,
                  seen_hashes, all_docs, final_docs, result, chat_result, trace, other >>

vars == << pc, query, max_results, index, all_queries, round, qi, round_docs,
           seen_hashes, all_docs, final_docs, result, chat_result, trace, other,
           usage_data, sessions, today, now, reply, audit >>

-----------------------------------------------------------------------------
(* Python str operations                                                    *)

CharAt(s, i) == SubSeq(s, i, i)

\* str.isspace for the characters of the model's alphabet
IsSpace(c) == c \in {" ", "\t", "\n"}

UpperChars == << "A","B","C","D","E","F","G","H","I","J","K","L","M",
                 "N","O","P","Q","R","S","T","U","V","W","X","Y","Z" >>
LowerChars == << "a","b","c","d","e","f","g","h","i","j","k","l","m",
                 "n","o","p","q","r","s","t","u","v","w","x","y","z" >>
Digits == {"0","1","2","3","4","5","6","7","8","9"}

LowerChar(c) ==
    IF \E k \in 1..26 : UpperChars[k] = c
    THEN LowerChars[CHOOSE k \in 1..26 : UpperChars[k] = c]
    ELSE c

\* the regular expression class \w (ASCII)
IsWordChar(c) ==
    \/ \E k \in 1..26 : UpperChars[k] = c \/ LowerChars[k] = c
    \/ c \in Digits
    \/ c = "_"

RECURSIVE LowerFrom(_, _)
LowerFrom(s, i) ==
    IF i > Len(s) THEN "" ELSE LowerChar(CharAt(s, i)) \o LowerFrom(s, i + 1)

\* str.lower()
Lower(s) == LowerFrom(s, 1)

RECURSIVE FirstNonSpace(_, _)
FirstNonSpace(s, i) ==
    IF i > Len(s) THEN i
    ELSE IF IsSpace(CharAt(s, i)) THEN FirstNonSpace(s, i + 1) ELSE i

RECURSIVE LastNonSpace(_, _)
LastNonSpace(s, i) ==
    IF i < 1 THEN i
    ELSE IF IsSpace(CharAt(s, i)) THEN LastNonSpace(s, i - 1) ELSE i

\* str.strip()
Strip(s) == SubSeq(s, FirstNonSpace(s, 1), LastNonSpace(s, Len(s)))

\* s[:n]
Prefix(s, n) == SubSeq(s, 1, IF n < Len(s) THEN n ELSE Len(s))

\* s.startswith(p) at offset i (1-based)
StartsWithAt(s, p, i) == i + Len(p) - 1 <= Len(s) /\ SubSeq(s, i, i + Len(p) - 1) = p

\* s.endswith(p)
EndsWith(s, p) == Len(p) <= Len(s) /\ SubSeq(s, Len(s) - Len(p) + 1, Len(s)) = p

\* p in s
Contains(s, p) == \E i \in 1..(Len(s) - Len(p) + 1) : StartsWithAt(s, p, i)

RECURSIVE ReplaceFrom(_, _, _, _)
ReplaceFrom(s, old, new, i) ==
    IF i > Len(s) THEN ""
    ELSE IF StartsWithAt(s, old, i) THEN new \o ReplaceFrom(s, old, new, i + Len(old))
    ELSE CharAt(s, i) \o ReplaceFrom(s, old, new, i + 1)

\* s.replace(old, new), old non-empty
Replace(s, old, new) == ReplaceFrom(s, old, new, 1)

RECURSIVE WordEnd(_, _)
WordEnd(s, i) ==
    IF i > Len(s) \/ IsSpace(CharAt(s, i)) THEN i - 1 ELSE WordEnd(s, i + 1)

RECURSIVE SplitFrom(_, _)
SplitFrom(s, i) ==
    LET b == FirstNonSpace(s, i)
        e == WordEnd(s, b)
    IN  IF b > Len(s) THEN << >> ELSE << SubSeq(s, b, e) >> \o SplitFrom(s, e + 1)

\* s.split()
Split(s) == SplitFrom(s, 1)

RECURSIVE Join(_, _)
\* sep.join(words)
Join(sep, words) ==
    IF words = << >> THEN ""
    ELSE IF Len(words) = 1 THEN words[1]
    ELSE words[1] \o sep \o Join(sep, Tail(words))

\* list(reversed(xs))
Reversed(xs) == [i \in 1..Len(xs) |-> xs[Len(xs) + 1 - i]]

\* x in xs, for a list
InList(x, xs) == \E i \in 1..Len(xs) : xs[i] = x

\* xs[:n] and xs[a:b] for lists (0-based slice bounds as in the source)
Slice(xs, a, b) ==
    SubSeq(xs, a + 1, IF b < Len(xs) THEN b ELSE Len(xs))

Min(a, b) == IF a <= b THEN a ELSE b

-----------------------------------------------------------------------------
(* Query expander                                                           *)

RECURSIVE WordVariations(_, _)
\* the plural/singular loop of _generate_linguistic_variations, from word i on
WordVariations(words, i) ==
    IF i > Len(words) THEN << >>
    ELSE LET word == words[i]
             here ==
                 IF Len(word) > 3
                 THEN IF EndsWith(word, "s") /\ ~EndsWith(word, "ss")
                      THEN << Join(" ", [words EXCEPT ![i] = SubSeq(word, 1, Len(word) - 1)]) >>
                      ELSE IF ~EndsWith(word, "s")
                           THEN << Join(" ", [words EXCEPT ![i] = word \o "s"]) >>
                           ELSE << >>
                 ELSE << >>
         IN  here \o WordVariations(words, i + 1)

\* the substitutions table, in its insertion order
substitutions ==
    << [original |-> "education",  replacements |-> << "degree", "qualification", "academic", "study" >>],
       [original |-> "experience", replacements |-> << "work", "job", "employment", "career" >>],
       [original |-> "skill",      replacements |-> << "ability", "expertise", "competency", "knowledge" >>],
       [original |-> "project",    replacements |-> << "work", "development", "application", "system" >>],
       [original |-> "university", replacements |-> << "college", "school", "institution", "academy" >>],
       [original |-> "degree",     replacements |-> << "qualification", "education", "diploma", "certificate" >>] >>

RECURSIVE Substituted(_, _)
\* the substitution loop of _generate_linguistic_variations, from table entry k on
Substituted(q, k) ==
    IF k > Len(substitutions) THEN << >>
    ELSE LET e == substitutions[k]
             here ==
                 IF Contains(Lower(q), e.original)
                 THEN [r \in 1..Len(e.replacements) |->
                          Replace(Lower(q), e.original, e.replacements[r])]
                 ELSE << >>
         IN  here \o Substituted(q, k + 1)

generate_linguistic_variations(q) ==
    WordVariations(Split(q), 1) \o Substituted(q, 1)

\* the semantic_clusters table, in its insertion order
semantic_clusters ==
    << << "education", "degree", "university", "college", "study", "qualification", "academic", "learning" >>,
       << "experience", "job", "work", "employment", "career", "position", "role" >>,
       << "skill", "technology", "programming", "development", "technical", "expertise" >>,
       << "name", "contact", "personal", "information", "details", "profile" >>,
       << "project", "achievement", "accomplishment", "success", "award", "certification" >> >>

RECURSIVE ClusterExpansions(_, _, _)
\* the inner loop over one cluster's words, from word j on
ClusterExpansions(query_lower, cluster_words, j) ==
    IF j > Len(cluster_words) THEN << >>
    ELSE LET w == cluster_words[j]
             here ==
                 IF ~Contains(query_lower, w)
                 THEN << query_lower \o " " \o w, w \o " " \o query_lower >>
                 ELSE << >>
         IN  here \o ClusterExpansions(query_lower, cluster_words, j + 1)

RECURSIVE SemanticFrom(_, _)
SemanticFrom(query_lower, k) ==
    IF k > Len(semantic_clusters) THEN << >>
    ELSE LET cluster_words == semantic_clusters[k]
             words == Split(query_lower)
             here ==
                 IF \E j \in 1..Len(cluster_words) : InList(cluster_words[j], words)
                 THEN ClusterExpansions(query_lower, cluster_words, 1)
                 ELSE << >>
         IN  here \o SemanticFrom(query_lower, k + 1)

generate_semantic_expansions(query_lower) == SemanticFrom(query_lower, 1)

question_words == << "what", "where", "when", "who", "how" >>

\* \b between positions i-1 and i of s
WordBoundary(s, i) ==
    LET before == i > 1 /\ IsWordChar(CharAt(s, i - 1))
        after  == i <= Len(s) /\ IsWordChar(CharAt(s, i))
    IN  before # after

\* the question word the pattern \b(what|where|when|who|how)\b matches at i,
\* as the list of those that do (the first one is the regex engine's choice)
QuestionWordsAt(s, i) ==
    SelectSeq(question_words,
              LAMBDA w : /\ WordBoundary(s, i)
                         /\ StartsWithAt(s, w, i)
                         /\ WordBoundary(s, i + Len(w)))

RECURSIVE StripQuestionFrom(_, _)
\* re.sub(r'\b(what|where|when|who|how)\b.*?(is|are|was|were|did)?\s*', '', s)
\* from position i on.  After the closing \b the lazy .*? takes nothing and the
\* optional verb group cannot match (the next character is no word character),
\* so one match is the question word and the white space that follows it.
StripQuestionFrom(s, i) ==
    IF i > Len(s) THEN ""
    ELSE LET ws == QuestionWordsAt(s, i)
         IN  IF ws # << >>
             THEN StripQuestionFrom(s, FirstNonSpace(s, i + Len(ws[1])))
             ELSE CharAt(s, i) \o StripQuestionFrom(s, i + 1)

RECURSIVE StripPossessiveFrom(_, _)
\* re.sub(r"'s\b", "", s) from position i on
StripPossessiveFrom(s, i) ==
    IF i > Len(s) THEN ""
    ELSE IF StartsWithAt(s, "'s", i) /\ WordBoundary(s, i + 2)
         THEN StripPossessiveFrom(s, i + 2)
         ELSE CharAt(s, i) \o StripPossessiveFrom(s, i + 1)

generate_contextual_variations(query_lower) ==
    LET base_query == Strip(StripQuestionFrom(query_lower, 1))
        question ==
            IF (\E k \in 1..Len(question_words) : Contains(query_lower, question_words[k]))
               /\ base_query # ""
            THEN << base_query,
                    "information about " \o base_query,
                    "details of " \o base_query,
                    "tell me about " \o base_query >>
            ELSE << >>
        possessive_cleaned == StripPossessiveFrom(query_lower, 1)
        words == Split(possessive_cleaned)
        possessive ==
            IF Contains(query_lower, "'s") \/ Contains(query_lower, "of")
            THEN << possessive_cleaned >> \o
                 (IF Len(words) >= 2
                  THEN << words[Len(words)] \o " " \o Join(" ", SubSeq(words, 1, Len(words) - 1)) >>
                  ELSE << >>)
            ELSE << >>
    IN  question \o possessive

stop_words == << "the", "and", "or", "but", "with", "from", "about" >>

generate_structural_variations(q) ==
    LET words == Split(q)
        important_words ==
            SelectSeq(words, LAMBDA w : Len(w) > 3 /\ ~InList(Lower(w), stop_words))
    IN  IF Len(words) >= 2
        THEN << Join(" ", Reversed(words)) >> \o
             (IF important_words # << >> THEN << Join(" ", important_words) >> ELSE << >>)
        ELSE << >>

RECURSIVE UniqueQueries(_, _, _)
\* the de-duplication loop of _generate_comprehensive_queries: queries from
\* position i on, with the set seen so far; returns unique_queries
UniqueQueries(queries, i, seen) ==
    IF i > Len(queries) THEN << >>
    ELSE LET q == queries[i]
         IN  IF Strip(q) # "" /\ Lower(q) \notin seen /\ Len(Strip(q)) > 1
             THEN << Strip(q) >> \o UniqueQueries(queries, i + 1, seen \cup {Lower(q)})
             ELSE UniqueQueries(queries, i + 1, seen)

generate_comprehensive_queries(q) ==
    LET query_lower == Strip(Lower(q))
        queries == << Strip(q) >>
                   \o generate_linguistic_variations(q)
                   \o generate_semantic_expansions(query_lower)
                   \o generate_contextual_variations(query_lower)
                   \o generate_structural_variations(q)
    IN  Slice(UniqueQueries(queries, 1, {}), 0, 12)

-----------------------------------------------------------------------------
(* Values exchanged with the index                                          *)

\* a document string returned by the index, or None
Doc(t) == [none |-> FALSE, text |-> t]
NoneDoc == [none |-> TRUE, text |-> ""]

\* a metadata dict returned by the index (only its "source" key is read), or None
Meta(s) == [none |-> FALSE, has_source |-> TRUE, source |-> s]
MetaNoSource == [none |-> FALSE, has_source |-> FALSE, source |-> ""]
NoneMeta == [none |-> TRUE, has_source |-> FALSE, source |-> ""]

\* one entry of an index answer: document, metadata, distance (hundredths)
Entry(d, m, x) == [doc |-> d, metadata |-> m, distance |-> x]

\* the dict vector_store.search returns: three parallel lists
SearchResult(entries) ==
    [documents |-> [i \in 1..Len(entries) |-> entries[i].doc],
     metadatas |-> [i \in 1..Len(entries) |-> entries[i].metadata],
     distances |-> [i \in 1..Len(entries) |-> entries[i].distance]]

\* the class of query strings the index answers alike: the original query, the
\* variants searched in round 1, the variants searched in round 2
QueryClasses == {"exact", "near", "far"}

ClassOf(q, queries, original) ==
    IF q = original \/ (queries # << >> /\ q = queries[1]) THEN "exact"
    ELSE IF \E i \in 1..Min(3, Len(queries)) : queries[i] = q THEN "near"
    ELSE "far"

\* vector_store.search(q, n_results=n) over the index idx: the n nearest entries
search(idx, q, n, queries, original) ==
    SearchResult(Slice(idx[ClassOf(q, queries, original)], 0, n))

-----------------------------------------------------------------------------
(* Search round executor                                                    *)

\* min(results["distances"])
MinDistance(distances) ==
    CHOOSE d \in {distances[i] : i \in 1..Len(distances)} :
        \A i \in 1..Len(distances) : d <= distances[i]

\* Threshold without the cap at 1.0
Threshold_uncapped(strict, distances) ==
    IF strict /\ distances # << >>
    THEN MinDistance(distances) * 2
    ELSE 200

\* the threshold of one query's result set
Threshold(strict, distances) ==
    IF strict /\ distances # << >>
    THEN Min(100, MinDistance(distances) * 2)
    ELSE 200

\* DocHash taken over the whole document
DocHash_whole_document(text) == text

\* hash(doc[:100]); the hash is taken to be collision free
DocHash(text) == Prefix(text, 100)

RECURSIVE AcceptFrom(_, _, _, _, _, _)
\* the loop over zip(documents, metadatas, distances) from position k on, with
\* round_docs = rd and seen_hashes = sh.  Slicing a document that is None
\* raises, which ends the loop with what was appended so far.
AcceptFrom(results, k, threshold, q, rd, sh) ==
    IF k > Min(Len(results.documents), Min(Len(results.metadatas), Len(results.distances)))
    THEN [round_docs |-> rd, seen_hashes |-> sh, raised |-> FALSE]
    ELSE LET doc == results.documents[k]
             metadata == results.metadatas[k]
             distance == results.distances[k]
         IN  IF doc.none
             THEN [round_docs |-> rd, seen_hashes |-> sh, raised |-> TRUE]
             ELSE IF DocHash(doc.text) \notin sh /\ distance <= threshold
                  THEN AcceptFrom(results, k + 1, threshold, q,
                                  Append(rd, [content |-> doc, metadata |-> metadata,
                                              distance |-> distance, query |-> q]),
                                  sh \cup {DocHash(doc.text)})
                  ELSE AcceptFrom(results, k + 1, threshold, q, rd, sh)

\* SearchOneQuery dropping the hits of a query whose loop raised
SearchOneQuery_discard_on_failure(results, strict, q, rd, sh) ==
    IF results.documents = << >>
    THEN [round_docs |-> rd, seen_hashes |-> sh, raised |-> FALSE]
    ELSE LET out == AcceptFrom(results, 1, Threshold(strict, results.distances), q, rd, sh)
         IN  IF out.raised THEN [round_docs |-> rd, seen_hashes |-> sh, raised |-> TRUE]
             ELSE out

\* the body of the loop over config["queries"] for one query q
SearchOneQuery(results, strict, q, rd, sh) ==
    IF results.documents = << >>
    THEN [round_docs |-> rd, seen_hashes |-> sh, raised |-> FALSE]
    ELSE AcceptFrom(results, 1, Threshold(strict, results.distances), q, rd, sh)

\* NextQuery leaving the loop when the search of a query raised
NextQuery_abort(i, raised, n) == IF raised THEN n + 1 ELSE i + 1

\* the position of the query searched after the one at position i of n: the
\* except clause of the loop goes on with the next query, like a search that ended
NextQuery(i, raised, n) == i + 1

\* search_rounds with the first round searching every variant
search_rounds_unsliced(queries, q, n) ==
    << [queries |-> queries,              n_results |-> n,     strict |-> TRUE],
       [queries |-> Slice(queries, 3, 6), n_results |-> n * 2, strict |-> FALSE],
       [queries |-> << q >>,              n_results |-> n * 3, strict |-> FALSE] >>

\* search_rounds with round 2 asking for the base count
search_rounds_flat_count(queries, q, n) ==
    << [queries |-> Slice(queries, 0, 3), n_results |-> n,     strict |-> TRUE],
       [queries |-> Slice(queries, 3, 6), n_results |-> n,     strict |-> FALSE],
       [queries |-> << q >>,              n_results |-> n * 3, strict |-> FALSE] >>

\* search_rounds of retrieve_context
search_rounds(queries, q, n) ==
    << [queries |-> Slice(queries, 0, 3), n_results |-> n,     strict |-> TRUE],
       [queries |-> Slice(queries, 3, 6), n_results |-> n * 2, strict |-> FALSE],
       [queries |-> << q >>,              n_results |-> n * 3, strict |-> FALSE] >>

\* EnoughResults asking for more than 5 documents
EnoughResults_more_than_five(docs) ==
    Len(docs) > 5 /\ \E i \in 1..Len(docs) : docs[i].distance < 60

\* the early termination test after a round
EnoughResults(docs) ==
    Len(docs) >= 5 /\ \E i \in 1..Len(docs) : docs[i].distance < 60

-----------------------------------------------------------------------------
(* Fallback searcher                                                        *)

\* desperate_fallback_search keeping only the hits within the lenient threshold
desperate_fallback_search_filtered(results, q, n) ==
    LET m == Min(Len(Slice(results.documents, 0, n)),
                 Min(Len(Slice(results.metadatas, 0, n)), Len(Slice(results.distances, 0, n))))
    IN  SelectSeq([k \in 1..m |-> [content |-> results.documents[k], metadata |-> results.metadatas[k],
                                   distance |-> results.distances[k], query |-> q]],
                  LAMBDA h : h.distance <= 200)

\* _desperate_fallback_search on the answer of its one search
desperate_fallback_search(results, q, n) ==
    LET m == Min(Len(Slice(results.documents, 0, n)),
                 Min(Len(Slice(results.metadatas, 0, n)), Len(Slice(results.distances, 0, n))))
    IN  [k \in 1..m |-> [content |-> results.documents[k], metadata |-> results.metadatas[k],
                         distance |-> results.distances[k], query |-> q]]

-----------------------------------------------------------------------------
(* Ranker                                                                   *)

\* UniqueDocs keeping every document
UniqueDocs_all(docs, i, seen_content) == SubSeq(docs, i, Len(docs))

RECURSIVE UniqueDocs(_, _, _)
\* step 1: keep the first document of every content[:200] key
UniqueDocs(docs, i, seen_content) ==
    IF i > Len(docs) THEN << >>
    ELSE LET content_key == Prefix(docs[i].content.text, 200)
         IN  IF content_key \notin seen_content
             THEN << docs[i] >> \o UniqueDocs(docs, i + 1, seen_content \cup {content_key})
             ELSE UniqueDocs(docs, i + 1, seen_content)

\* InsertByDistance placing d before the entries of the same distance
InsertByDistance_before_equal(sorted, d) ==
    LET n == Cardinality({i \in 1..Len(sorted) : sorted[i].distance < d.distance})
    IN  SubSeq(sorted, 1, n) \o << d >> \o SubSeq(sorted, n + 1, Len(sorted))

\* insertion of d into a list sorted by distance, after the entries that are not larger
InsertByDistance(sorted, d) ==
    LET n == Cardinality({i \in 1..Len(sorted) : sorted[i].distance <= d.distance})
    IN  SubSeq(sorted, 1, n) \o << d >> \o SubSeq(sorted, n + 1, Len(sorted))

\* SortByDistance leaving the documents in the order of the input
SortByDistance_input_order(docs) == docs

RECURSIVE SortByDistance(_)
\* list.sort(key=distance): stable, ascending
SortByDistance(docs) ==
    IF docs = << >> THEN << >>
    ELSE InsertByDistance(SortByDistance(SubSeq(docs, 1, Len(docs) - 1)), docs[Len(docs)])

\* quality_threshold without its last tier
quality_threshold_two_tier(best_distance) ==
    IF best_distance < 50 THEN 100 ELSE 150

\* quality_threshold with the first tier's value in the middle tier
quality_threshold_low_middle(best_distance) ==
    IF best_distance < 50 THEN 100
    ELSE IF best_distance < 100 THEN 100
    ELSE 200

quality_threshold(best_distance) ==
    IF best_distance < 50 THEN 100
    ELSE IF best_distance < 100 THEN 150
    ELSE 200

\* deduplicate_and_rank whose leniency rule keeps every unique document up to the cut
deduplicate_and_rank_lenient_all(docs) ==
    IF docs = << >> THEN << >>
    ELSE LET unique_docs == SortByDistance(UniqueDocs(docs, 1, {}))
             threshold == quality_threshold(unique_docs[1].distance)
             quality_docs == SelectSeq(unique_docs, LAMBDA d : d.distance <= threshold)
         IN  IF Len(quality_docs) < 2 /\ Len(unique_docs) >= 2
             THEN Slice(unique_docs, 0, 8)
             ELSE Slice(quality_docs, 0, 8)

\* deduplicate_and_rank without the final cut to 8 documents
deduplicate_and_rank_uncapped(docs) ==
    IF docs = << >> THEN << >>
    ELSE LET unique_docs == SortByDistance(UniqueDocs(docs, 1, {}))
             threshold == quality_threshold(unique_docs[1].distance)
             quality_docs == SelectSeq(unique_docs, LAMBDA d : d.distance <= threshold)
         IN  IF Len(quality_docs) < 2 /\ Len(unique_docs) >= 2
             THEN Slice(unique_docs, 0, 5)
             ELSE quality_docs

deduplicate_and_rank(docs) ==
    IF docs = << >> THEN << >>
    ELSE LET unique_docs == SortByDistance(UniqueDocs(docs, 1, {}))
             threshold == quality_threshold(unique_docs[1].distance)
             quality_docs == SelectSeq(unique_docs, LAMBDA d : d.distance <= threshold)
         IN  IF Len(quality_docs) < 2 /\ Len(unique_docs) >= 2
             THEN Slice(Slice(unique_docs, 0, 5), 0, 8)
             ELSE Slice(quality_docs, 0, 8)

-----------------------------------------------------------------------------
(* Context assembler                                                        *)

MAX_CONTEXT_LENGTH == 5000

\* doc["metadata"].get("source", "unknown")
SourceOf(metadata) == IF metadata.has_source THEN metadata.source ELSE "unknown"

\* TrackSource without the membership test
TrackSource_always(sources, source) == Append(sources, source)

\* if source not in sources: sources.append(source)
TrackSource(sources, source) ==
    IF InList(source, sources) THEN sources ELSE Append(sources, source)

\* partial_content without the ellipsis marker
partial_content_unmarked(content, remaining_space) == Prefix(content, remaining_space)

\* partial_content = content[:remaining_space-3] + "..."
partial_content(content, remaining_space) == Prefix(content, remaining_space - 3) \o "..."

RECURSIVE BuildFrom(_, _, _)
\* the loop of _build_context from document i on.  acc holds context_parts,
\* sources and total_length; acc.used lists the positions of the documents whose
\* content was appended; acc.raised tells that the loop raised (strip() of a
\* None content, get() of a None metadata).
BuildFrom(docs, i, acc) ==
    IF i > Len(docs) THEN acc
    ELSE IF docs[i].content.none THEN [acc EXCEPT !.raised = TRUE]
    ELSE LET content == Strip(docs[i].content.text)
             remaining_space == MAX_CONTEXT_LENGTH - acc.total_length
         IN  IF content = "" THEN BuildFrom(docs, i + 1, acc)
             ELSE IF acc.total_length + Len(content) <= MAX_CONTEXT_LENGTH
             THEN IF docs[i].metadata.none
                  THEN [acc EXCEPT !.raised = TRUE]
                  ELSE LET source == SourceOf(docs[i].metadata)
                       IN  BuildFrom(docs, i + 1,
                             [acc EXCEPT
                                !.context_parts = Append(@, content),
                                !.total_length = @ + Len(content),
                                !.used = Append(@, i),
                                !.sources = TrackSource(@, source)])
             ELSE IF remaining_space > 100
                  THEN [acc EXCEPT
                          !.context_parts = Append(@, partial_content(content, remaining_space)),
                          !.used = Append(@, i)]
                  ELSE acc

\* _build_context: the context, the sources, and what the loop did
build_context(docs) ==
    LET acc == BuildFrom(docs, 1, [context_parts |-> << >>, sources |-> << >>,
                                   total_length |-> 0, used |-> << >>, raised |-> FALSE])
    IN  [context |-> Join("\n\n", acc.context_parts), sources |-> acc.sources,
         used |-> acc.used, raised |-> acc.raised]

-----------------------------------------------------------------------------
(* Retrieval orchestrator and chat                                          *)

\* the default of retrieve_context's max_results, which chat relies on
DEFAULT_MAX_RESULTS == 10

\* the dict of the except clause of retrieve_context
EmptyResult == [context |-> "", sources |-> << >>, num_docs |-> 0, best_distance |-> 100]

\* retrieve_return counting only the documents put into the context
retrieve_return_counts_used(built, docs) ==
    IF built.raised THEN EmptyResult
    ELSE [context |-> built.context,
          sources |-> built.sources,
          num_docs |-> Len(built.used),
          best_distance |-> IF docs # << >> THEN docs[1].distance ELSE 100,
          search_strategy |-> "multi-strategy-enhanced"]

\* retrieve_return without the except clause: the exception leaves the call
retrieve_return_reraise(built, docs) ==
    IF built.raised THEN [exception |-> "AttributeError"]
    ELSE [context |-> built.context,
          sources |-> built.sources,
          num_docs |-> Len(docs),
          best_distance |-> IF docs # << >> THEN docs[1].distance ELSE 100,
          search_strategy |-> "multi-strategy-enhanced"]

\* retrieve_return reading the distance of the last document
retrieve_return_last_distance(built, docs) ==
    IF built.raised THEN EmptyResult
    ELSE [context |-> built.context,
          sources |-> built.sources,
          num_docs |-> Len(docs),
          best_distance |-> IF docs # << >> THEN docs[Len(docs)].distance ELSE 100,
          search_strategy |-> "multi-strategy-enhanced"]

\* what retrieve_context returns after _build_context answered built for docs
retrieve_return(built, docs) ==
    IF built.raised THEN EmptyResult
    ELSE [context |-> built.context,
          sources |-> built.sources,
          num_docs |-> Len(docs),
          best_distance |-> IF docs # << >> THEN docs[1].distance ELSE 100,
          search_strategy |-> "multi-strategy-enhanced"]

\* context_quality with inclusive comparisons
context_quality_inclusive(best_distance) ==
    IF best_distance <= 60 THEN "high"
    ELSE IF best_distance <= 100 THEN "medium"
    ELSE "low"

\* the context_quality expression of chat
context_quality(best_distance) ==
    IF best_distance < 60 THEN "high"
    ELSE IF best_distance < 100 THEN "medium"
    ELSE "low"

\* the texts generate_response can return: the model's answer, or its apology
\* when the completion call failed
Responses == {"generated answer", "I apologize, but I'm experiencing technical difficulties."}

\* the dict chat returns for the retrieval result context_info
chat_return(context_info, response) ==
    [response |-> response,
     sources_used |-> context_info.sources,
     num_sources |-> context_info.num_docs,
     has_context |-> context_info.context # "",
     context_quality |-> context_quality(context_info.best_distance),
     search_strategy |-> IF "search_strategy" \in DOMAIN context_info
                         THEN context_info.search_strategy ELSE "standard"]

RECURSIVE ExecuteRoundFrom(_, _, _, _, _, _, _)
\* the loop of _execute_search_round from the query at position i on
ExecuteRoundFrom(idx, config, queries, original, i, rd, sh) ==
    IF i > Len(config.queries) THEN rd
    ELSE LET q == config.queries[i]
             results == search(idx, q, config.n_results, queries, original)
             out == SearchOneQuery(results, config.strict, q, rd, sh)
         IN  ExecuteRoundFrom(idx, config, queries, original,
                              NextQuery(i, out.raised, Len(config.queries)),
                              out.round_docs, out.seen_hashes)

\* _execute_search_round(config)
execute_search_round(idx, config, queries, original) ==
    ExecuteRoundFrom(idx, config, queries, original, 1, << >>, {})

RECURSIVE RoundsFrom(_, _, _, _, _, _)
\* the loop over search_rounds from round r on, with all_docs = docs
RoundsFrom(idx, queries, q, n, r, docs) ==
    LET extended == docs \o execute_search_round(idx, search_rounds(queries, q, n)[r], queries, q)
    IN  IF EnoughResults(extended) \/ r = 3 THEN extended
        ELSE RoundsFrom(idx, queries, q, n, r + 1, extended)

\* retrieve_context(q, n) over the index idx, run from its first statement to
\* its return
retrieve_context(idx, q, n) ==
    LET queries == generate_comprehensive_queries(q)
        ranked == deduplicate_and_rank(RoundsFrom(idx, queries, q, n, 1, << >>))
        final == IF ranked = << >>
                 THEN desperate_fallback_search(search(idx, q, n * 4, queries, q), q, n)
                 ELSE ranked
    IN  retrieve_return(build_context(final), final)

Pending == [pending |-> TRUE]

NoTrace ==
    [searches |-> 0,        \* calls of vector_store.search
     all_empty |-> TRUE,    \* every search so far answered no document
     strict |-> {},         \* (best distance, threshold) of the strict searches that answered
     failed_queries |-> 0,  \* queries of a round whose search raised (caught in the round)
     accepted |-> << >>,    \* hits returned by each executed round
     ranked |-> FALSE,      \* _deduplicate_and_rank was called
     fallback |-> FALSE,    \* the fallback search was issued
     raised |-> FALSE,      \* an exception reached the except clause of retrieve_context
     used |-> << >>,        \* positions in final_docs of the documents put into the context
     log |-> << >>,         \* one entry per search of a round, in the order of the calls
     rank_log |-> << >>,    \* input and output of every call of _deduplicate_and_rank
     fallback_log |-> << >>,  \* query, requested count and returned hits of every fallback search
     preempted |-> FALSE]   \* the call was suspended in the middle of a round

\* no second call
NoCall == [pc |-> "absent"]

Round(queries, q, n, r) == search_rounds(queries, q, n)[r]

\* all_queries = self._generate_comprehensive_queries(query)
Expand ==
    /\ pc = "expand"
    /\ all_queries' = generate_comprehensive_queries(query)
    /\ round' = 1
    /\ qi' = 1
    /\ pc' = "round"
    /\ UNCHANGED << query, max_results, index, other, round_docs, seen_hashes, all_docs,
                    final_docs, result, chat_result, trace, service_vars >>

\* one iteration of the loop of _execute_search_round: the search for one query
SearchQuery ==
    /\ pc = "round"
    /\ LET config == Round(all_queries, query, max_results, round)
       IN  /\ qi <= Len(config.queries)
           /\ LET q == config.queries[qi]
                  results == search(index, q, config.n_results, all_queries, query)
                  out == SearchOneQuery(results, config.strict, q, round_docs, seen_hashes)
              IN  /\ round_docs' = out.round_docs
                  /\ seen_hashes' = out.seen_hashes
                  /\ trace' = [trace EXCEPT
                        !.searches = @ + 1,
                        !.all_empty = @ /\ results.documents = << >>,
                        !.failed_queries = IF out.raised THEN @ + 1 ELSE @,
                        !.log = Append(@, [round |-> round, pos |-> qi, query |-> q,
                                           n_results |-> config.n_results,
                                           strict |-> config.strict,
                                           raised |-> out.raised,
                                           accepted |-> Len(out.round_docs) - Len(round_docs)]),
                        !.strict = IF config.strict /\ results.documents # << >>
                                   THEN @ \cup {[best |-> MinDistance(results.distances),
                                                 threshold |-> Threshold(config.strict, results.distances)]}
                                   ELSE @]
                  /\ qi' = NextQuery(qi, out.raised, Len(config.queries))
    /\ UNCHANGED << pc, query, max_results, index, other, all_queries, round, all_docs,
                    final_docs, result, chat_result, service_vars >>

\* the round returns round_docs; retrieve_context extends all_docs and decides
\* whether another round follows
EndRound ==
    /\ pc = "round"
    /\ qi > Len(Round(all_queries, query, max_results, round).queries)
    /\ all_docs' = all_docs \o round_docs
    /\ trace' = [trace EXCEPT !.accepted = Append(@, Len(round_docs))]
    /\ round_docs' = << >>
    /\ seen_hashes' = {}
    /\ qi' = 1
    /\ IF EnoughResults(all_docs') \/ round = 3
       THEN pc' = "rank" /\ round' = round
       ELSE pc' = "round" /\ round' = round + 1
    /\ UNCHANGED << query, max_results, index, other, all_queries, final_docs, result, chat_result, service_vars >>

\* final_docs = self._deduplicate_and_rank(all_docs)
Rank ==
    /\ pc = "rank"
    /\ final_docs' = deduplicate_and_rank(all_docs)
    /\ pc' = IF final_docs' = << >> THEN "fallback" ELSE "assemble"
    /\ trace' = [trace EXCEPT
          !.ranked = TRUE,
          !.rank_log = Append(@, [input |-> all_docs, output |-> final_docs'])]
    /\ UNCHANGED << query, max_results, index, other, all_queries, round, qi, round_docs,
                    seen_hashes, all_docs, result, chat_result, service_vars >>

\* final_docs = self._desperate_fallback_search(query, max_results)
Fallback ==
    /\ pc = "fallback"
    /\ LET results == search(index, query, max_results * 4, all_queries, query)
       IN  /\ final_docs' = desperate_fallback_search(results, query, max_results)
           /\ trace' = [trace EXCEPT
                 !.searches = @ + 1,
                 !.all_empty = @ /\ results.documents = << >>,
                 !.fallback = TRUE,
                 !.fallback_log = Append(@, [query |-> query, n_results |-> max_results * 4,
                                             returned |-> final_docs'])]
    /\ pc' = "assemble"
    /\ UNCHANGED << query, max_results, index, other, all_queries, round, qi, round_docs,
                    seen_hashes, all_docs, result, chat_result, service_vars >>

\* context, sources = self._build_context(final_docs), and the return (or the
\* except clause when _build_context raised)
Assemble ==
    /\ pc = "assemble"
    /\ LET built == build_context(final_docs)
       IN  /\ result' = retrieve_return(built, final_docs)
           /\ trace' = [trace EXCEPT !.raised = built.raised, !.used = built.used]
    /\ pc' = "returned"
    /\ UNCHANGED << query, max_results, index, other, all_queries, round, qi, round_docs,
                    seen_hashes, all_docs, final_docs, chat_result, service_vars >>

\* chat: generate_response on the retrieved context, then the returned dict
Chat ==
    /\ pc = "returned"
    /\ \E response \in Responses : chat_result' = chat_return(result, response)
    /\ pc' = "done"
    /\ UNCHANGED << query, max_results, index, other, all_queries, round, qi, round_docs,
                    seen_hashes, all_docs, final_docs, result, trace, service_vars >>

\* the local variables of the running call
Frame ==
    [pc |-> pc, query |-> query, all_queries |-> all_queries, round |-> round, qi |-> qi,
     round_docs |-> round_docs, seen_hashes |-> seen_hashes, all_docs |-> all_docs,
     final_docs |-> final_docs, result |-> result,
     trace |-> [trace EXCEPT !.preempted = @ \/ (pc = "round" /\ seen_hashes # {})]]

\* Switch with seen_hashes kept by the engine instead of by the call
Switch_shared_seen_hashes ==
    /\ other.pc \notin {"absent", "returned"}
    /\ other' = Frame
    /\ pc' = other.pc
    /\ query' = other.query
    /\ all_queries' = other.all_queries
    /\ round' = other.round
    /\ qi' = other.qi
    /\ round_docs' = other.round_docs
    /\ all_docs' = other.all_docs
    /\ final_docs' = other.final_docs
    /\ result' = other.result
    /\ trace' = other.trace
    /\ UNCHANGED << max_results, index, chat_result, seen_hashes, service_vars >>

\* the scheduler suspends the running call and resumes the other one: every
\* variable of retrieve_context and of _execute_search_round is a local of the call
Switch ==
    /\ other.pc \notin {"absent", "returned"}
    /\ other' = Frame
    /\ pc' = other.pc
    /\ query' = other.query
    /\ all_queries' = other.all_queries
    /\ round' = other.round
    /\ qi' = other.qi
    /\ round_docs' = other.round_docs
    /\ seen_hashes' = other.seen_hashes
    /\ all_docs' = other.all_docs
    /\ final_docs' = other.final_docs
    /\ result' = other.result
    /\ trace' = other.trace
    /\ UNCHANGED << max_results, index, chat_result, service_vars >>

\* _deduplicate_and_rank called once more, on the list it was given before or
\* on the list it returned
RankAgain ==
    /\ pc \in {"fallback", "assemble"}
    /\ Len(trace.rank_log) = 1
    /\ \E input \in {all_docs, final_docs} :
          /\ all_docs' = input
          /\ final_docs' = deduplicate_and_rank(input)
          /\ trace' = [trace EXCEPT
                !.rank_log = Append(@, [input |-> input, output |-> final_docs'])]
    /\ pc' = "reranked"
    /\ UNCHANGED << query, max_results, index, other, all_queries, round, qi, round_docs,
                    seen_hashes, result, chat_result, service_vars >>

-----------------------------------------------------------------------------
(* Usage tracker and chat service                                           *)

\* settings.DAILY_MESSAGE_LIMIT: the environment variable of that name (200
\* when it is not set), here a small positive number
DAILY_MESSAGE_LIMIT == 2

\* {}
EmptyDict == [k \in {} |-> 0]

\* d[k] = v
SetItem(d, k, v) == [x \in DOMAIN d \cup {k} |-> IF x = k THEN v ELSE d[x]]

\* del d[k]
DelItem(d, k) == [x \in DOMAIN d \ {k} |-> d[x]]

\* xs[-n:], n positive
LastN(xs, n) == SubSeq(xs, IF Len(xs) > n THEN Len(xs) - n + 1 ELSE 1, Len(xs))


\* user_data after "Reset count if new day"
NewDayReset(user_data, day) ==
    IF user_data.date # day THEN [user_data EXCEPT !.date = day, !.count = 0] ELSE user_data

\* LimitExceeded refusing only above the limit
LimitExceeded_above(user_data) == user_data.count > DAILY_MESSAGE_LIMIT

\* the "Check if limit exceeded" test
LimitExceeded(user_data) == user_data.count >= DAILY_MESSAGE_LIMIT

\* check_and_increment counting the refused call as well
check_and_increment_counts_refused(data, user_id, day) ==
    LET initialised == IF user_id \in DOMAIN data THEN data
                       ELSE SetItem(data, user_id,
                                    [date |-> day, count |-> 0, total_messages |-> 0])
        user_data == NewDayReset(initialised[user_id], day)
        incremented == [user_data EXCEPT !.count = @ + 1, !.total_messages = @ + 1]
    IN  IF LimitExceeded(user_data)
        THEN [usage_data |-> SetItem(initialised, user_id, incremented),
              info |-> [allowed |-> FALSE, remaining |-> 0, used |-> user_data.count,
                        limit |-> DAILY_MESSAGE_LIMIT, reset_time |-> "midnight"]]
        ELSE [usage_data |-> SetItem(initialised, user_id, incremented),
              info |-> [allowed |-> TRUE,
                        remaining |-> DAILY_MESSAGE_LIMIT - incremented.count,
                        used |-> incremented.count,
                        limit |-> DAILY_MESSAGE_LIMIT, reset_time |-> "midnight"]]

\* UsageTracker.check_and_increment(user_id) on the day `day`: the new
\* usage_data and the returned dict
check_and_increment(data, user_id, day) ==
    LET initialised == IF user_id \in DOMAIN data THEN data
                       ELSE SetItem(data, user_id,
                                    [date |-> day, count |-> 0, total_messages |-> 0])
        user_data == NewDayReset(initialised[user_id], day)
    IN  IF LimitExceeded(user_data)
        THEN [usage_data |-> SetItem(initialised, user_id, user_data),
              info |-> [allowed |-> FALSE, remaining |-> 0, used |-> user_data.count,
                        limit |-> DAILY_MESSAGE_LIMIT, reset_time |-> "midnight"]]
        ELSE LET incremented == [user_data EXCEPT !.count = @ + 1, !.total_messages = @ + 1]
             IN  [usage_data |-> SetItem(initialised, user_id, incremented),
                  info |-> [allowed |-> TRUE,
                            remaining |-> DAILY_MESSAGE_LIMIT - incremented.count,
                            used |-> incremented.count,
                            limit |-> DAILY_MESSAGE_LIMIT, reset_time |-> "midnight"]]

\* UsageTracker.get_user_usage(user_id) on the day `day`
get_user_usage(data, user_id, day) ==
    IF user_id \notin DOMAIN data
    THEN [used |-> 0, remaining |-> DAILY_MESSAGE_LIMIT, limit |-> DAILY_MESSAGE_LIMIT,
          total_messages |-> 0, limit_exceeded |-> FALSE]
    ELSE LET daily_used == IF data[user_id].date # day THEN 0 ELSE data[user_id].count
             remaining == DAILY_MESSAGE_LIMIT - daily_used
         IN  [used |-> daily_used,
              remaining |-> IF remaining > 0 THEN remaining ELSE 0,
              limit |-> DAILY_MESSAGE_LIMIT,
              total_messages |-> data[user_id].total_messages,
              limit_exceeded |-> daily_used >= DAILY_MESSAGE_LIMIT]

\* a session_id argument: a string, or None
SessionId(t) == [none |-> FALSE, text |-> t]
NoneSessionId == [none |-> TRUE, text |-> ""]

\* ChatService._get_session_key
get_session_key(user_id, session_id) ==
    IF ~session_id.none /\ session_id.text # ""
    THEN user_id \o ":" \o session_id.text
    ELSE user_id \o ":default"

\* ChatService._get_conversation_history
get_conversation_history(sess, session_key, limit) ==
    IF session_key \notin DOMAIN sess THEN << >> ELSE LastN(sess[session_key], limit)

\* HistoryCut keeping the oldest 50 exchanges
HistoryCut_oldest(history) == IF Len(history) > 50 THEN SubSeq(history, 1, 50) ELSE history

\* the length to which _add_to_history cuts a session
HistoryCut(history) == IF Len(history) > 50 THEN LastN(history, 50) ELSE history

\* ChatService._add_to_history, the exchange being stamped timestamp
add_to_history(sess, session_key, user_message, assistant_response, metadata, timestamp) ==
    LET created == IF session_key \notin DOMAIN sess THEN SetItem(sess, session_key, << >>)
                   ELSE sess
        exchange == [timestamp |-> timestamp, user |-> user_message,
                     assistant |-> assistant_response, metadata |-> metadata]
    IN  SetItem(created, session_key, HistoryCut(Append(created[session_key], exchange)))

\* ChatService.get_session_history
get_session_history(sess, user_id, session_id, limit) ==
    LET session_key == get_session_key(user_id, session_id)
    IN  IF session_key \notin DOMAIN sess THEN << >> ELSE LastN(sess[session_key], limit)

RECURSIVE FindChar(_, _, _)
\* s.find(c) from position i on (1-based; Len(s) + 1 when there is none)
FindChar(s, c, i) ==
    IF i > Len(s) \/ CharAt(s, i) = c THEN i ELSE FindChar(s, c, i + 1)

\* the keys of the sessions that get_user_sessions lists for user_id
UserSessionKeys(sess, user_id) ==
    {k \in DOMAIN sess : StartsWithAt(k, user_id \o ":", 1) /\ sess[k] # << >>}

\* the session_info dict of get_user_sessions for the session at session_key
session_info(sess, session_key) ==
    LET session_data == sess[session_key]
        last_message == session_data[Len(session_data)]
    IN  [session_key |-> session_key,
         session_id |-> SubSeq(session_key, FindChar(session_key, ":", 1) + 1, Len(session_key)),
         message_count |-> Len(session_data),
         last_activity |-> last_message.timestamp,
         last_message_preview |-> IF Len(last_message.user) > 100
                                  THEN Prefix(last_message.user, 100) \o "..."
                                  ELSE last_message.user]

RECURSIVE SortedInfos(_, _)
\* the session_info dicts of the sessions at keys, latest activity first
SortedInfos(sess, keys) ==
    IF keys = {} THEN << >>
    ELSE LET k == CHOOSE k \in keys :
                     \A m \in keys : session_info(sess, k).last_activity
                                        >= session_info(sess, m).last_activity
         IN  << session_info(sess, k) >> \o SortedInfos(sess, keys \ {k})

\* ChatService.get_user_sessions
get_user_sessions(sess, user_id) == SortedInfos(sess, UserSessionKeys(sess, user_id))

\* what reply holds before any call
NoReply == [pending |-> TRUE]

\* the observation log of the service before any call
NoAudit ==
    [last |-> [op |-> "none"],  \* the last call: operation, arguments, what was handed to the engine
     rag_calls |-> 0,           \* calls of rag_engine.chat
     owner |-> EmptyDict,       \* per timestamp: the user_id and session_id whose message was
                                \* recorded in the exchange, and its arrival number in the session
     arrived |-> EmptyDict,     \* per session key: exchanges added since the session was created
     granted |-> EmptyDict]     \* per (user_id, day): answers with allowed = true

\* the tracker and the service as constructed when no file is found
ServiceConstructed ==
    /\ usage_data = EmptyDict
    /\ sessions = EmptyDict
    /\ today = 1
    /\ now = 0
    /\ reply = NoReply
    /\ audit = NoAudit

\* d.get(k, 0) for the counters of the observation log
Count(d, k) == IF k \in DOMAIN d THEN d[k] ELSE 0

\* the values rag_engine.chat returns: an answer with a source, and the result
\* of a call whose response generation failed
RagResults ==
    { chat_return([context |-> "alpha: education and degree", sources |-> << "cv.pdf" >>, num_docs |-> 1,
                   best_distance |-> 30, search_strategy |-> "multi-strategy-enhanced"],
                  "generated answer"),
      chat_return(EmptyResult, "I apologize, but I'm experiencing technical difficulties.") }

\* user ids and session ids of the requests: any string is accepted as either
UserIds == {"ann", "ann:w"}

SessionIds == {NoneSessionId, SessionId("home"), SessionId("w:home")}

Messages == {"hello"}

\* the calls served in a run, and the days it spans
MaxCalls == 3

MaxDay == 2

\* ChatService.process_message(user_id, message, session_id)
ProcessMessage ==
    /\ now < MaxCalls
    /\ \E user_id \in UserIds, session_id \in SessionIds, message \in Messages,
          rag_result \in RagResults :
          LET checked == check_and_increment(usage_data, user_id, today)
              usage_info == checked.info
              session_key == get_session_key(user_id, session_id)
              conversation_history == get_conversation_history(sessions, session_key, 5)
              added == add_to_history(sessions, session_key, message, rag_result.response,
                                      [sources_used |-> rag_result.sources_used,
                                       num_sources |-> rag_result.num_sources,
                                       has_context |-> rag_result.has_context],
                                      now + 1)
          IN  /\ usage_data' = checked.usage_data
              /\ IF ~usage_info.allowed
                 THEN /\ sessions' = sessions
                      /\ reply' = [success |-> FALSE,
                                   error |-> "Daily message limit exceeded",
                                   usage_info |-> usage_info,
                                   response |-> "You have reached your daily message limit of 200 messages. Please try again tomorrow.",
                                   sources_used |-> << >>]
                      /\ audit' = [audit EXCEPT
                            !.last = [op |-> "process_message", user_id |-> user_id,
                                      session_id |-> session_id, session_key |-> session_key,
                                      rag_called |-> FALSE, history |-> << >>]]
                 ELSE /\ sessions' = added
                      /\ reply' = [success |-> TRUE,
                                   response |-> rag_result.response,
                                   sources_used |-> rag_result.sources_used,
                                   usage_info |-> usage_info,
                                   session_info |-> [session_key |-> session_key,
                                                     message_count |-> Len(added[session_key])]]
                      /\ audit' = [audit EXCEPT
                            !.last = [op |-> "process_message", user_id |-> user_id,
                                      session_id |-> session_id, session_key |-> session_key,
                                      rag_called |-> TRUE, history |-> conversation_history],
                            !.rag_calls = @ + 1,
                            !.owner = SetItem(@, now + 1,
                                              [user_id |-> user_id, session_id |-> session_id,
                                               seq |-> Count(audit.arrived, session_key) + 1]),
                            !.arrived = SetItem(@, session_key, Count(@, session_key) + 1),
                            !.granted = SetItem(@, << user_id, today >>,
                                                Count(@, << user_id, today >>) + 1)]
    /\ now' = now + 1
    /\ UNCHANGED << today, engine_vars >>

\* ChatService.clear_session(user_id, session_id)
ClearSession ==
    /\ now < MaxCalls
    /\ \E user_id \in UserIds, session_id \in SessionIds :
          LET session_key == get_session_key(user_id, session_id)
          IN  /\ sessions' = IF session_key \in DOMAIN sessions
                             THEN DelItem(sessions, session_key) ELSE sessions
              /\ reply' = [returned |-> session_key \in DOMAIN sessions]
              /\ audit' = [audit EXCEPT
                    !.last = [op |-> "clear_session", user_id |-> user_id,
                              session_id |-> session_id, session_key |-> session_key,
                              rag_called |-> FALSE, history |-> << >>],
                    !.arrived = DelItem(@, session_key)]
    /\ now' = now + 1
    /\ UNCHANGED << usage_data, today, engine_vars >>

\* midnight passes
NextDay ==
    /\ today < MaxDay
    /\ today' = today + 1
    /\ UNCHANGED << usage_data, sessions, now, reply, audit, engine_vars >>

-----------------------------------------------------------------------------
(* Inputs of the model                                                      *)

RECURSIVE Rep(_, _)
\* the string s repeated n times
Rep(s, n) ==
    IF n = 0 THEN ""
    ELSE IF n % 2 = 0 THEN LET h == Rep(s, n \div 2) IN h \o h
    ELSE s \o Rep(s, n - 1)

\* documents of the index: short ones, two that share their first 200
\* characters, one that shares only the first 100 with them, a padded one and
\* one of white space only
TextA == "alpha: education and degree"
TextB == "beta: work experience"
TextC == "gamma: technical skill"
TextD == "delta: contact details"
TextE == "epsilon: project award"
TextPadded == "  zeta: padded chunk \n"
TextBlank == " \n  "
TextLong1 == Rep("p", 200) \o " first continuation"
TextLong2 == Rep("p", 200) \o " second continuation"
TextMid == Rep("p", 100) \o " other chunk"

\* the answers the index can give to one class of queries, nearest first
ResultLists ==
    { << >>,
      \* five close documents and a farther one
      << Entry(Doc(TextA), Meta("cv.pdf"), 30), Entry(Doc(TextB), Meta("cv.pdf"), 35),
         Entry(Doc(TextC), Meta("skills.txt"), 40), Entry(Doc(TextD), MetaNoSource, 50),
         Entry(Doc(TextPadded), Meta("skills.txt"), 60), Entry(Doc(TextE), Meta("cv.pdf"), 90) >>,
      \* a medium match and documents with common prefixes
      << Entry(Doc(TextLong1), Meta("cv.pdf"), 70), Entry(Doc(TextMid), Meta("notes.md"), 80),
         Entry(Doc(TextLong2), Meta("notes.md"), 120), Entry(Doc(TextA), Meta("cv.pdf"), 250) >>,
      \* the same long document under another source, and the one sharing 100 characters
      << Entry(Doc(TextMid), Meta("notes.md"), 55), Entry(Doc(TextLong2), Meta("copy.pdf"), 58),
         Entry(Doc(TextA), Meta("cv.pdf"), 65) >>,
      \* nothing nearer than 1.0, one document of white space only
      << Entry(Doc(TextB), Meta("skills.txt"), 120), Entry(Doc(TextBlank), Meta("cv.pdf"), 150),
         Entry(Doc(TextC), Meta("cv.pdf"), 250) >>,
      \* nothing nearer than 2.0
      << Entry(Doc(TextD), Meta("cv.pdf"), 250), Entry(Doc(TextE), Meta("skills.txt"), 300) >>,
      \* a single distant document
      << Entry(Doc(TextE), Meta("cv.pdf"), 180) >>,
      \* an entry stored without a document
      << Entry(Doc(TextA), Meta("cv.pdf"), 30), Entry(NoneDoc, Meta("cv.pdf"), 40),
         Entry(Doc(TextB), Meta("skills.txt"), 50) >>,
      \* the nearest entry stored without a document
      << Entry(NoneDoc, Meta("notes.md"), 20), Entry(Doc(TextD), Meta("cv.pdf"), 30) >>,
      \* an entry stored without metadata
      << Entry(Doc(TextC), NoneMeta, 45), Entry(Doc(TextB), Meta("cv.pdf"), 50) >>,
      \* twelve documents, none nearer than 2.0
      [i \in 1..12 |-> Entry(Doc("distant chunk " \o Rep("#", i)), Meta("misc.txt"), 200 + 10 * i)] }

\* the indexes of the model: one answer per class of queries
Indexes == [QueryClasses -> ResultLists]

EmptyIndex == [c \in QueryClasses |-> << >>]

\* queries of the retrieval runs: one, five and twelve variants
PipelineQueries == {"cv", "cats 's", "skill"}

\* queries of the expander runs: up to MaxWords words of ExpandWords joined by
\* one space, with or without a leading and a trailing space
MaxWords == 2

ExpandWords == {"cats", "'s", "of", "what", "skill", "a", "Cv", "about", "class"}

WordLists == UNION {[1..n -> ExpandWords] : n \in 0..MaxWords}

ExpandQueries ==
    {lead \o Join(" ", ws) \o trail : lead \in {"", " "}, ws \in WordLists, trail \in {"", " "}}

\* document lists handed to the assembler: up to MaxAsmDocs entries of
\* AsmEntries, in increasing distance
MaxAsmDocs == 3

AsmEntries ==
    { Entry(Doc(Rep("a", 2500)), Meta("cv.pdf"), 0),
      Entry(Doc(Rep("b", 2500)), Meta("skills.txt"), 0),
      Entry(Doc(Rep("c", 4950)), Meta("notes.md"), 0),
      Entry(Doc(" delta chunk\n"), Meta("cv.pdf"), 0),
      Entry(Doc("epsilon chunk"), MetaNoSource, 0),
      Entry(Doc(TextBlank), Meta("blank.txt"), 0),
      Entry(Doc("eta chunk"), NoneMeta, 0),
      Entry(NoneDoc, Meta("cv.pdf"), 0) }

AsmInputs ==
    { [i \in 1..Len(es) |-> [content |-> es[i].doc, metadata |-> es[i].metadata,
                             distance |-> 10 * i, query |-> "cv"]] :
      es \in UNION {[1..n -> AsmEntries] : n \in 0..MaxAsmDocs} }

\* a hit as the rounds hand it to the ranker
Hit(text, source, distance) ==
    [content |-> Doc(text), metadata |-> Meta(source), distance |-> distance, query |-> "cv"]

\* hits handed to the ranker: two at the same distance, two sharing their first
\* 200 characters under different sources and distances, one on each boundary
\* of the threshold table, and farther ones
RankHits ==
    { Hit(TextA, "cv.pdf", 30), Hit(TextB, "skills.txt", 30),
      Hit(TextLong1, "cv.pdf", 120), Hit(TextLong2, "notes.md", 40),
      Hit(TextC, "cv.pdf", 50), Hit(TextD, "skills.txt", 100),
      Hit(TextE, "cv.pdf", 150), Hit(TextMid, "notes.md", 250) }

\* lists of up to MaxRankDocs of these hits, in any order
MaxRankDocs == 4

\* n different documents, all within 1.0, several at the same distance, unsorted
CloseList(n) ==
    [i \in 1..n |-> Hit("close chunk " \o Rep("#", i), "cv.pdf", 40 + 10 * ((i * 3) % 4))]

\* one near document followed by n different documents farther than 1.0
FarList(n) ==
    << Hit(TextA, "cv.pdf", 30) >> \o
    [i \in 1..n |-> Hit("far chunk " \o Rep("#", i), "notes.md", 110 + 10 * (i % 3))]

RankInputs ==
    UNION {[1..n -> RankHits] : n \in 0..MaxRankDocs}
        \cup {CloseList(n) : n \in 8..10} \cup {FarList(n) : n \in 5..6}

-----------------------------------------------------------------------------
(* Specifications                                                           *)

\* a chat request: retrieve_context(query) over some index, then the chat result
Init ==
    /\ pc = "expand"
    /\ query \in PipelineQueries
    /\ max_results = DEFAULT_MAX_RESULTS
    /\ index \in Indexes
    /\ all_queries = << >>
    /\ round = 1
    /\ qi = 1
    /\ round_docs = << >>
    /\ seen_hashes = {}
    /\ all_docs = << >>
    /\ final_docs = << >>
    /\ result = Pending
    /\ chat_result = Pending
    /\ trace = NoTrace
    /\ other = NoCall
    /\ ServiceConstructed

Next ==
    \/ Expand
    \/ SearchQuery
    \/ EndRound
    \/ Rank
    \/ Fallback
    \/ Assemble
    \/ Chat

Spec == Init /\ [][Next]_vars

\* the engine before a request arrives
InitFair ==
    /\ pc = "idle"
    /\ query = ""
    /\ max_results = DEFAULT_MAX_RESULTS
    /\ index = EmptyIndex
    /\ all_queries = << >>
    /\ round = 1
    /\ qi = 1
    /\ round_docs = << >>
    /\ seen_hashes = {}
    /\ all_docs = << >>
    /\ final_docs = << >>
    /\ result = Pending
    /\ chat_result = Pending
    /\ trace = NoTrace
    /\ other = NoCall
    /\ ServiceConstructed

\* chat(query) is called, over whatever the index holds at that time
Request ==
    /\ pc = "idle"
    /\ query' \in PipelineQueries
    /\ index' \in Indexes
    /\ pc' = "expand"
    /\ UNCHANGED << max_results, all_queries, round, qi, round_docs, seen_hashes,
                    all_docs, final_docs, result, chat_result, trace, other, service_vars >>

NextFair ==
    \/ Request
    \/ Expand
    \/ SearchQuery
    \/ EndRound
    \/ Rank
    \/ Fallback
    \/ Assemble
    \/ Chat

\* a call is at a statement it can execute until chat has returned: every
\* stage's action is enabled whenever pc is at that stage
NextFairEnabled == pc # "done"

\* weak fairness of NextFair, WF_vars(NextFair), with ENABLED <<NextFair>>_vars
\* written as the state predicate it equals
FairNext == []<>(~NextFairEnabled) \/ []<><<NextFair>>_vars

\* a chat request whose steps are eventually taken: no statement of
\* retrieve_context or chat waits or loops without bound
SpecFair == InitFair /\ [][NextFair]_vars /\ FairNext

\* the expander alone, on the queries of ExpandQueries
InitExpand ==
    /\ pc = "expand"
    /\ query \in ExpandQueries
    /\ max_results = DEFAULT_MAX_RESULTS
    /\ index = EmptyIndex
    /\ all_queries = << >>
    /\ round = 1
    /\ qi = 1
    /\ round_docs = << >>
    /\ seen_hashes = {}
    /\ all_docs = << >>
    /\ final_docs = << >>
    /\ result = Pending
    /\ chat_result = Pending
    /\ trace = NoTrace
    /\ other = NoCall
    /\ ServiceConstructed

NextExpand == Expand

SpecExpand == InitExpand /\ [][NextExpand]_vars

\* the assembler alone, on the document lists of AsmInputs
InitAssemble ==
    /\ pc = "assemble"
    /\ query = "cv"
    /\ max_results = DEFAULT_MAX_RESULTS
    /\ index = EmptyIndex
    /\ all_queries = << "cv" >>
    /\ round = 3
    /\ qi = 1
    /\ round_docs = << >>
    /\ seen_hashes = {}
    /\ all_docs = << >>
    /\ final_docs \in AsmInputs
    /\ result = Pending
    /\ chat_result = Pending
    /\ trace = NoTrace
    /\ other = NoCall
    /\ ServiceConstructed

NextAssemble == Assemble

SpecAssemble == InitAssemble /\ [][NextAssemble]_vars

\* the ranker alone, on the lists of RankInputs, called once and once more
InitRank ==
    /\ pc = "rank"
    /\ query = "cv"
    /\ max_results = DEFAULT_MAX_RESULTS
    /\ index = EmptyIndex
    /\ all_queries = << "cv" >>
    /\ round = 3
    /\ qi = 1
    /\ round_docs = << >>
    /\ seen_hashes = {}
    /\ all_docs \in RankInputs
    /\ final_docs = << >>
    /\ result = Pending
    /\ chat_result = Pending
    /\ trace = NoTrace
    /\ other = NoCall
    /\ ServiceConstructed

NextRank ==
    \/ Rank
    \/ RankAgain

SpecRank == InitRank /\ [][NextRank]_vars

\* the answers of the index in the runs of two calls: nothing, the six-entry
\* answer, and the answers with an entry stored without a document
TwoLists ==
    {l \in ResultLists : l = << >> \/ Len(l) = 6 \/ \E k \in 1..Len(l) : l[k].doc.none}

TwoIndexes == [QueryClasses -> TwoLists]

\* two calls of retrieve_context over the same index, one running and one
\* suspended, switched at any step
InitTwo ==
    /\ pc = "expand"
    /\ query \in PipelineQueries
    /\ max_results = DEFAULT_MAX_RESULTS
    /\ index \in TwoIndexes
    /\ all_queries = << >>
    /\ round = 1
    /\ qi = 1
    /\ round_docs = << >>
    /\ seen_hashes = {}
    /\ all_docs = << >>
    /\ final_docs = << >>
    /\ result = Pending
    /\ chat_result = Pending
    /\ trace = NoTrace
    /\ \E q \in PipelineQueries :
          other = [pc |-> "expand", query |-> q, all_queries |-> << >>, round |-> 1, qi |-> 1,
                   round_docs |-> << >>, seen_hashes |-> {}, all_docs |-> << >>,
                   final_docs |-> << >>, result |-> Pending, trace |-> NoTrace]
    /\ ServiceConstructed

NextTwo ==
    \/ Expand
    \/ SearchQuery
    \/ EndRound
    \/ Rank
    \/ Fallback
    \/ Assemble
    \/ Switch

SpecTwo == InitTwo /\ [][NextTwo]_vars

\* the exchanges of a session of n messages recorded before the run, the last
\* of them stamped 0
RecordedBefore(n) ==
    [i \in 1..n |-> [timestamp |-> i - n, user |-> "hello", assistant |-> "generated answer",
                     metadata |-> [sources_used |-> << "cv.pdf" >>, num_sources |-> 1,
                                   has_context |-> TRUE]]]

\* the engine while the service is observed: no call of retrieve_context is open
EngineIdle ==
    /\ pc = "idle"
    /\ query = ""
    /\ max_results = DEFAULT_MAX_RESULTS
    /\ index = EmptyIndex
    /\ all_queries = << >>
    /\ round = 1
    /\ qi = 1
    /\ round_docs = << >>
    /\ seen_hashes = {}
    /\ all_docs = << >>
    /\ final_docs = << >>
    /\ result = Pending
    /\ chat_result = Pending
    /\ trace = NoTrace
    /\ other = NoCall

\* the service as constructed; or the service after "ann" has sent 49 messages
\* in their default session, the last of them yesterday or today, being one
\* message short of the daily limit on that day
InitService ==
    /\ EngineIdle
    /\ today = 1
    /\ now = 0
    /\ reply = NoReply
    /\ \/ /\ usage_data = EmptyDict
          /\ sessions = EmptyDict
          /\ audit = NoAudit
       \/ \E day \in {0, 1} :
             /\ usage_data = SetItem(EmptyDict, "ann",
                                     [date |-> day, count |-> DAILY_MESSAGE_LIMIT - 1,
                                      total_messages |-> 49])
             /\ sessions = SetItem(EmptyDict, "ann:default", RecordedBefore(49))
             /\ audit = [NoAudit EXCEPT
                   !.owner = [t \in -48..0 |-> [user_id |-> "ann", session_id |-> NoneSessionId,
                                                seq |-> t + 49]],
                   !.arrived = SetItem(EmptyDict, "ann:default", 49),
                   !.granted = SetItem(EmptyDict, << "ann", day >>, DAILY_MESSAGE_LIMIT - 1)]

NextService ==
    \/ ProcessMessage
    \/ ClearSession
    \/ NextDay

SpecService == InitService /\ [][NextService]_vars

-----------------------------------------------------------------------------
(* Properties                                                               *)

Returned == pc \in {"returned", "done"}

\* C1: the context returned by _build_context, separators and ellipsis marker
\* included, is never longer than MAX_CONTEXT_LENGTH.
C1_ContextWithinLimit ==
    Returned /\ ~trace.raised => Len(result.context) <= MAX_CONTEXT_LENGTH

\* C2: the expander returns at most 12 variants, each with more than one
\* character after trimming, pairwise distinct when compared without case, and
\* the (trimmed) original query, when it is longer than one character, first.
C2_VariantsDistinctOriginalFirst ==
    pc = "round" =>
        /\ Len(all_queries) <= 12
        /\ \A i \in 1..Len(all_queries) : Len(Strip(all_queries[i])) > 1
        /\ \A i, j \in 1..Len(all_queries) :
               i # j => Lower(all_queries[i]) # Lower(all_queries[j])
        /\ Len(Strip(query)) > 1 => all_queries # << >> /\ all_queries[1] = Strip(query)

\* C3 as claimed: num_docs is the number of documents whose content, whole or
\* truncated, was put into the context.
C3_NumDocsCountsAppended ==
    Returned /\ ~trace.raised => result.num_docs = Len(trace.used)

\* C3 as amended: num_docs is the number of documents handed to the assembler,
\* which is at least the number put into the context; it is 0 when the call
\* failed.
C3_NumDocsCountsHandedOver ==
    Returned =>
        /\ ~trace.raised => result.num_docs = Len(final_docs) /\ Len(trace.used) <= result.num_docs
        /\ trace.raised => result.num_docs = 0

\* a call that returned with a document counted in num_docs and left out of the context
C3_Witness ==
    Returned /\ ~trace.raised /\ result.num_docs = 2 /\ Len(trace.used) = 1

\* the result is the canonical empty one: no context, no sources, no document,
\* best_distance 1.0
CanonicalEmpty(r) ==
    r.context = "" /\ r.sources = << >> /\ r.num_docs = 0 /\ r.best_distance = 100

C5_AnyFailureGivesEmptyResult ==
    Returned /\ (trace.raised \/ trace.failed_queries > 0) =>
        "context" \in DOMAIN result /\ CanonicalEmpty(result)

\* C5 as amended: no failure leaves retrieve_context; a failure that reaches the
\* except clause of retrieve_context (the assembler raising) makes the call
\* return the canonical empty result, while a failure of one search of a round
\* is absorbed by the round and the call returns what the other searches gave.
C5_NoFailurePropagates ==
    Returned =>
        /\ "context" \in DOMAIN result
        /\ trace.raised => result = EmptyResult
        /\ ~trace.raised => "search_strategy" \in DOMAIN result

\* a call whose assembler raised on the documents it was handed
C5_Witness ==
    Returned /\ trace.raised /\ final_docs # << >>

\* C6 as claimed: the threshold of a strict search that answered is at most 1.0
\* and at least the best distance of that answer.
C6_StrictThresholdBetween ==
    \A e \in trace.strict : e.threshold <= 100 /\ e.threshold >= e.best

\* C6 as amended: the threshold of a strict search that answered is at most 1.0,
\* and it is at least the best distance of that answer exactly when that best
\* distance is at most 1.0.
C6_StrictThresholdCapped ==
    \A e \in trace.strict :
        /\ e.threshold <= 100
        /\ e.threshold >= e.best <=> e.best <= 100

\* a round 1 with one answer whose best distance is under 1.0 and one whose best
\* distance is over 1.0
C6_Witness ==
    /\ \E e \in trace.strict : e.best < 100 /\ e.threshold >= e.best
    /\ \E e \in trace.strict : e.best > 100

\* the position in final_docs of the first document put into the context whose
\* source is s (0 if there is none)
FirstUse(s) ==
    LET at == {k \in 1..Len(trace.used) : SourceOf(final_docs[trace.used[k]].metadata) = s}
    IN  IF at = {} THEN 0 ELSE CHOOSE k \in at : \A m \in at : k <= m

\* C7: the sources returned by _build_context hold no source twice, and list the
\* sources in the order in which their first document was put into the context.
C7_SourcesDistinctInOrder ==
    Returned /\ ~trace.raised =>
        /\ \A i, j \in 1..Len(result.sources) : i # j => result.sources[i] # result.sources[j]
        /\ \A i \in 1..Len(result.sources) : FirstUse(result.sources[i]) > 0
        /\ \A i, j \in 1..Len(result.sources) :
               i < j => FirstUse(result.sources[i]) < FirstUse(result.sources[j])

\* three documents in the context, two of them of the same source
C7_Witness ==
    Returned /\ ~trace.raised /\ Len(trace.used) = 3 /\ Len(result.sources) = 2

\* C8: one call of retrieve_context makes at most 10 searches.
C8_AtMostTenSearches == trace.searches <= 10

\* a call that searched in three full rounds and in the fallback
C8_Witness == pc = "done" /\ trace.fallback /\ trace.searches = 8

AllRoundsEmpty == \A r \in 1..Len(trace.accepted) : trace.accepted[r] = 0

\* C9: the fallback search is issued exactly when every executed round accepted
\* no hit: it is issued only on an empty ranked result, and when a round
\* accepted a hit the ranked result is not empty and no fallback is issued.
C9_FallbackIffRoundsEmpty ==
    /\ pc = "fallback" => final_docs = << >>
    /\ trace.fallback => AllRoundsEmpty
    /\ pc \in {"assemble", "returned", "done"} /\ AllRoundsEmpty => trace.fallback
    /\ trace.ranked /\ ~AllRoundsEmpty =>
           final_docs # << >> /\ pc # "fallback" /\ ~trace.fallback

\* a call whose only accepted hit is farther than 1.0, ranked and kept
C9_Witness ==
    /\ pc = "assemble" /\ ~trace.fallback
    /\ Len(all_docs) = 1 /\ all_docs[1].distance > 100 /\ Len(final_docs) = 1

\* C10: when the retrieval yields a document, the label of chat is "high" for a
\* best distance under 0.6, "medium" from 0.6 to under 1.0 and "low" from 1.0,
\* the best distance being the distance of the first final document.
C10_QualityLabel ==
    pc = "done" /\ result.num_docs >= 1 =>
        LET d == final_docs[1].distance
        IN  /\ result.best_distance = d
            /\ d < 60 => chat_result.context_quality = "high"
            /\ d >= 60 /\ d < 100 => chat_result.context_quality = "medium"
            /\ d >= 100 => chat_result.context_quality = "low"

\* a finished chat whose several final documents start with one in the medium range
C10_Witness ==
    /\ pc = "done" /\ result.num_docs >= 2
    /\ final_docs[1].distance >= 60 /\ final_docs[1].distance < 100
    /\ chat_result.context_quality = "medium"

\* the position in the list docs of the first hit equal to h (0 if there is none)
FirstIndexOf(docs, h) ==
    LET at == {k \in 1..Len(docs) : docs[k] = h}
    IN  IF at = {} THEN 0 ELSE CHOOSE k \in at : \A m \in at : k <= m

\* C11: every list returned by _deduplicate_and_rank has at most 8 hits, in
\* non-decreasing distance, hits of equal distance being in the order in which
\* they stood in the input list.
C11_RankedAtMostEightSortedStable ==
    \A c \in 1..Len(trace.rank_log) :
        LET docs == trace.rank_log[c].input
            out == trace.rank_log[c].output
        IN  /\ Len(out) <= 8
            /\ \A i \in 1..Len(out) : FirstIndexOf(docs, out[i]) > 0
            /\ \A i, j \in 1..Len(out) :
                   i < j =>
                     /\ out[i].distance <= out[j].distance
                     /\ out[i].distance = out[j].distance =>
                            FirstIndexOf(docs, out[i]) < FirstIndexOf(docs, out[j])

\* ten hits within the threshold, given unsorted and with equal distances, of
\* which eight are returned
C11_Witness ==
    /\ Len(trace.rank_log) = 1
    /\ Len(trace.rank_log[1].input) = 10
    /\ Len(trace.rank_log[1].output) = 8
    /\ trace.rank_log[1].output[1].distance = trace.rank_log[1].output[2].distance
    /\ trace.rank_log[1].input[1].distance > trace.rank_log[1].input[2].distance

\* the key under which the ranker holds two hits to be the same document
ContentKey(h) == Prefix(h.content.text, 200)

\* the positions in docs of the hits whose key is key
PositionsOfKey(docs, key) == {k \in 1..Len(docs) : ContentKey(docs[k]) = key}

\* the first of these positions
FirstOfKey(docs, key) ==
    CHOOSE k \in PositionsOfKey(docs, key) : \A m \in PositionsOfKey(docs, key) : k <= m

\* C12 as claimed: of the input hits that share their first 200 characters
\* exactly one is returned, the first of them, and no two returned hits share
\* their first 200 characters.
C12_ExactlyOneOfDuplicates ==
    \A c \in 1..Len(trace.rank_log) :
        LET docs == trace.rank_log[c].input
            out == trace.rank_log[c].output
        IN  /\ \A i, j \in 1..Len(out) : i # j => ContentKey(out[i]) # ContentKey(out[j])
            /\ \A k \in 1..Len(docs) :
                   Cardinality(PositionsOfKey(docs, ContentKey(docs[k]))) >= 2 =>
                     /\ Cardinality(PositionsOfKey(out, ContentKey(docs[k]))) = 1
                     /\ \E i \in 1..Len(out) :
                            out[i] = docs[FirstOfKey(docs, ContentKey(docs[k]))]

\* C12 as amended: no two returned hits share their first 200 characters, and a
\* returned hit is the first input hit of its key; when no hit of a key is
\* returned, the first input hit of that key is not nearer than any returned
\* hit (it failed the quality filter or the cut), whatever the distances of
\* the later hits of the key.
C12_AtMostFirstOfDuplicates ==
    \A c \in 1..Len(trace.rank_log) :
        LET docs == trace.rank_log[c].input
            out == trace.rank_log[c].output
        IN  /\ \A i, j \in 1..Len(out) : i # j => ContentKey(out[i]) # ContentKey(out[j])
            /\ \A i \in 1..Len(out) :
                   /\ PositionsOfKey(docs, ContentKey(out[i])) # {}
                   /\ out[i] = docs[FirstOfKey(docs, ContentKey(out[i]))]
            /\ \A k \in 1..Len(docs) :
                   PositionsOfKey(out, ContentKey(docs[k])) = {} =>
                     \A i \in 1..Len(out) :
                        out[i].distance <= docs[FirstOfKey(docs, ContentKey(docs[k]))].distance

\* two hits with the same first 200 characters, another source and another
\* distance, ranked with a third hit: the first of the two is returned
C12_Witness ==
    /\ Len(trace.rank_log) = 1
    /\ LET docs == trace.rank_log[1].input
           out == trace.rank_log[1].output
       IN  /\ Len(docs) = 3 /\ Len(out) = 2
           /\ ContentKey(docs[1]) = ContentKey(docs[3])
           /\ docs[1].metadata # docs[3].metadata
           /\ docs[1].distance > docs[3].distance
           /\ out[2] = docs[1]

\* the positions in docs of the unique hits: the first hit of every key
UniquePositions(docs) == {k \in 1..Len(docs) : FirstOfKey(docs, ContentKey(docs[k])) = k}

\* the smallest distance among the unique hits of a list that is not empty
BestUnique(docs) ==
    CHOOSE d \in {docs[k].distance : k \in UniquePositions(docs)} :
        \A k \in UniquePositions(docs) : d <= docs[k].distance

\* the three-tier table of the claim
TierOf(best) == IF best < 50 THEN 100 ELSE IF best < 100 THEN 150 ELSE 200

\* the place of the unique hit at position k among the unique hits, nearest
\* first and earlier first among hits of equal distance
PlaceOf(docs, k) ==
    1 + Cardinality({m \in UniquePositions(docs) :
                        \/ docs[m].distance < docs[k].distance
                        \/ docs[m].distance = docs[k].distance /\ m < k})

\* C13 as claimed: every unique hit whose distance is at most the threshold
\* that the three-tier table gives for the best unique hit is returned.
C13_AllWithinThresholdSurvive ==
    \A c \in 1..Len(trace.rank_log) :
        LET docs == trace.rank_log[c].input
            out == trace.rank_log[c].output
        IN  \A k \in UniquePositions(docs) :
               docs[k].distance <= TierOf(BestUnique(docs)) =>
                 \E i \in 1..Len(out) : out[i] = docs[k]

\* C13 as amended: a unique hit whose distance is at most the threshold of the
\* three-tier table is returned when it is among the 8 nearest unique hits;
\* and when at least two unique hits are within the threshold, or there is
\* only one unique hit, no hit beyond the threshold is returned.
C13_EightNearestWithinThresholdSurvive ==
    \A c \in 1..Len(trace.rank_log) :
        LET docs == trace.rank_log[c].input
            out == trace.rank_log[c].output
            within == {k \in UniquePositions(docs) :
                          docs[k].distance <= TierOf(BestUnique(docs))}
        IN  /\ \A k \in within :
                   PlaceOf(docs, k) <= 8 => \E i \in 1..Len(out) : out[i] = docs[k]
            /\ \A k \in within :
                   PlaceOf(docs, k) > 8 => \A i \in 1..Len(out) : out[i] # docs[k]
            /\ Cardinality(within) >= 2 \/ Cardinality(UniquePositions(docs)) < 2 =>
                   \A i \in 1..Len(out) : out[i].distance <= TierOf(BestUnique(docs))

\* hits at 1.2, 1.5 and 2.5: the threshold is 2.0, the first two are returned
C13_Witness ==
    /\ Len(trace.rank_log) = 1
    /\ LET docs == trace.rank_log[1].input
           out == trace.rank_log[1].output
       IN  /\ Len(docs) = 3 /\ Len(out) = 2
           /\ out[1].distance = 120 /\ out[2].distance = 150
           /\ \E k \in 1..3 : docs[k].distance = 250

\* C14: two calls of _deduplicate_and_rank on the same list return the same
\* list, and a call on a list that a call returned returns that list unchanged.
C14_RankIdempotent ==
    \A a, b \in 1..Len(trace.rank_log) :
        /\ trace.rank_log[a].input = trace.rank_log[b].input =>
               trace.rank_log[a].output = trace.rank_log[b].output
        /\ trace.rank_log[b].input = trace.rank_log[a].output =>
               trace.rank_log[b].output = trace.rank_log[b].input

\* seven hits of which the leniency rule returned five, ranked once more
C14_Witness ==
    /\ Len(trace.rank_log) = 2
    /\ Len(trace.rank_log[1].input) = 7
    /\ Len(trace.rank_log[1].output) = 5
    /\ trace.rank_log[2].input = trace.rank_log[1].output

\* the rounds are over
RoundsOver == pc \in {"rank", "fallback", "assemble", "returned", "done"}

\* round 1 returned at least 5 hits, one of them at distance 0.3
RoundOneGood ==
    /\ trace.accepted # << >>
    /\ trace.accepted[1] >= 5
    /\ \E i \in 1..trace.accepted[1] : all_docs[i].distance = 30

TrimmedContent(docs, i) == Strip(docs[i].content.text)

RECURSIVE LengthBefore(_, _)
\* the summed length of the trimmed contents of the hits before position i
LengthBefore(docs, i) ==
    IF i <= 1 THEN 0
    ELSE LengthBefore(docs, i - 1) + Len(TrimmedContent(docs, i - 1))

\* the positions of the hits whose trimmed content is not empty and does not
\* fit the budget left by the hits before them
Overflowing(docs) ==
    {i \in 1..Len(docs) :
        /\ TrimmedContent(docs, i) # ""
        /\ LengthBefore(docs, i) + Len(TrimmedContent(docs, i)) > MAX_CONTEXT_LENGTH}

\* C16: at the first hit that does not fit the remaining budget, the assembler
\* appends the first (remaining budget - 3) characters of its trimmed content
\* followed by "..." as the last entry if the remaining budget is over 100, and
\* nothing otherwise; in both cases no later hit is appended.
C16_TruncateThenStop ==
    Returned /\ ~trace.raised /\ Overflowing(final_docs) # {} =>
        LET k == CHOOSE i \in Overflowing(final_docs) : \A m \in Overflowing(final_docs) : i <= m
            remaining == MAX_CONTEXT_LENGTH - LengthBefore(final_docs, k)
            used == trace.used
        IN  /\ \A u \in 1..Len(used) : used[u] <= k
            /\ remaining > 100 =>
                   /\ used # << >> /\ used[Len(used)] = k
                   /\ EndsWith(result.context,
                               SubSeq(TrimmedContent(final_docs, k), 1, remaining - 3) \o "...")
                   /\ k > 1 => EndsWith(result.context,
                               "\n\n" \o SubSeq(TrimmedContent(final_docs, k), 1, remaining - 3) \o "...")
            /\ remaining <= 100 =>
                   /\ \A u \in 1..Len(used) : used[u] < k
                   /\ \A j \in 1..(k - 1) :
                          TrimmedContent(final_docs, j) # "" =>
                             \E u \in 1..Len(used) : used[u] = j

\* a hit of 2500 characters, a hit of 4950 characters cut to 2497 and the
\* marker, and a short third hit that is left out
C16_Witness ==
    /\ Returned /\ ~trace.raised
    /\ Len(final_docs) = 3
    /\ trace.used = << 1, 2 >>
    /\ Len(TrimmedContent(final_docs, 2)) = 4950
    /\ final_docs[3].content.text = " delta chunk\n"
    /\ Len(result.context) = 5002

\* the number of queries of round r for the variants queries
QueriesOfRound(queries, r) ==
    IF r = 1 THEN Min(3, Len(queries))
    ELSE IF r = 2 THEN (IF Len(queries) > 3 THEN Min(6, Len(queries)) - 3 ELSE 0)
    ELSE 1

\* the entries of the log that belong to round r
LogOfRound(r) == SelectSeq(trace.log, LAMBDA e : e.round = r)

RECURSIVE SumAccepted(_, _)
\* the hits accepted by the first n searches of the list entries
SumAccepted(entries, n) ==
    IF n = 0 THEN 0 ELSE SumAccepted(entries, n - 1) + entries[n].accepted

\* C17: in every finished round each query of the round was searched, whether
\* or not the search of an earlier query failed, and the round returned the
\* hits accepted from all of them; a round that returned no hit is followed by
\* the next round, and rounds that all returned no hit by the fallback.
C17_FailedSearchIsolated ==
    /\ \A r \in 1..Len(trace.accepted) :
           LET entries == LogOfRound(r)
           IN  /\ Len(entries) = QueriesOfRound(all_queries, r)
               /\ \A i \in 1..Len(entries) : entries[i].pos = i
               /\ trace.accepted[r] = SumAccepted(entries, Len(entries))
    /\ RoundsOver =>
           \A r \in 1..Len(trace.accepted) :
               trace.accepted[r] = 0 /\ r < 3 => Len(trace.accepted) > r
    /\ pc \in {"assemble", "returned", "done"} /\ AllRoundsEmpty =>
           Len(trace.accepted) = 3 /\ trace.fallback

\* a round 1 whose first search raised before any hit and whose second search
\* gave hits that the round returned, then a round 2 whose searches all raised
\* and a round 3 that was still executed
C17_Witness ==
    /\ RoundsOver
    /\ Len(LogOfRound(1)) = 3
    /\ LogOfRound(1)[1].raised /\ LogOfRound(1)[1].accepted = 0
    /\ LogOfRound(1)[2].accepted > 0
    /\ trace.accepted[1] = LogOfRound(1)[2].accepted + LogOfRound(1)[3].accepted
    /\ Len(LogOfRound(2)) = 3
    /\ \A i \in 1..3 : LogOfRound(2)[i].raised
    /\ trace.accepted[2] = 0
    /\ Len(LogOfRound(3)) = 1

\* the entries of the answer to the original query that stand before its first
\* entry without a document and are within twice the best distance and 1.0
KeptBeforeFailure ==
    LET entries == index["exact"]
        none == {k \in 1..Len(entries) : entries[k].doc.none}
        best == CHOOSE d \in {entries[k].distance : k \in 1..Len(entries)} :
                    \A k \in 1..Len(entries) : d <= entries[k].distance
    IN  {k \in 1..Len(entries) :
            /\ \A n \in none : k < n
            /\ entries[k].distance <= 100
            /\ entries[k].distance <= 2 * best}

\* C18 as claimed: a round in which a search raised returns no hit, the stages
\* after it still run, and a call in which a stage raised still returns the
\* result of a call that completed.
C18_FailureMeansZeroHits ==
    /\ \A i \in 1..Len(trace.log) :
           trace.log[i].raised /\ trace.log[i].round <= Len(trace.accepted) =>
               trace.accepted[trace.log[i].round] = 0
    /\ Returned /\ trace.failed_queries > 0 => trace.ranked
    /\ Returned /\ trace.raised =>
           "search_strategy" \in DOMAIN result /\ result.num_docs = Len(final_docs)

\* C18 as amended: a failure while a round handles the answer to one query
\* keeps the hits accepted from that answer before it, and the later stages
\* run; a failure of the assembler ends the call with the canonical empty
\* result, which drops the hits that were found; no other stage raises.
C18_FailureKeepsOrDropsHits ==
    /\ \A i \in 1..Len(trace.log) :
           LET e == trace.log[i]
           IN  e.raised /\ e.round = 1 /\ e.pos = 1 =>
                  /\ e.accepted = Cardinality(KeptBeforeFailure)
                  /\ Len(trace.accepted) >= 1 => trace.accepted[1] >= e.accepted
    /\ Returned /\ trace.failed_queries > 0 => trace.ranked
    /\ Returned /\ trace.raised =>
           /\ final_docs # << >>
           /\ result = EmptyResult
           /\ result.num_docs # Len(final_docs)
    /\ pc = "done" /\ trace.raised =>
           /\ chat_result.num_sources = 0 /\ ~chat_result.has_context
           /\ chat_result.search_strategy = "standard"

\* a call in which the first search of round 1 raised after it had accepted a
\* hit, the round returned hits, and the assembler raised on the ranked hits
C18_Witness ==
    /\ pc = "done" /\ trace.raised
    /\ trace.log[1].raised /\ trace.log[1].accepted = 1
    /\ trace.accepted[1] >= 2
    /\ Len(final_docs) >= 2

\* C19: of two calls of retrieve_context that run interleaved over the same
\* index, each returns what a call with its query returns when it runs alone
\* from its first statement to its return.
C19_ConcurrentCallsIndependent ==
    /\ pc = "returned" => result = retrieve_context(index, query, max_results)
    /\ other.pc = "returned" =>
           other.result = retrieve_context(index, other.query, max_results)

\* two calls with different queries, each suspended in the middle of a round
\* while the other ran, have both returned documents
C19_Witness ==
    /\ pc = "returned" /\ other.pc = "returned"
    /\ query # other.query
    /\ trace.preempted /\ other.trace.preempted
    /\ result.num_docs >= 1 /\ other.result.num_docs >= 1
    /\ result # other.result

\* the place of a stage in the order of the claim
StageNumber(p) ==
    CASE p = "idle" -> 0
      [] p = "expand" -> 1
      [] p = "round" -> 2
      [] p = "rank" -> 3
      [] p = "fallback" -> 4
      [] p = "assemble" -> 5
      [] p = "returned" -> 6
      [] p = "done" -> 7

\* a step of the call moves to a later stage, or stays in the rounds and then
\* stays in its round or moves to the next of the three; the fallback follows
\* the ranker exactly when the ranker returned nothing
StageStep ==
    /\ StageNumber(pc') >= StageNumber(pc)
    /\ StageNumber(pc') = StageNumber(pc) => pc = "round"
    /\ pc = "idle" => pc' = "expand"
    /\ pc = "expand" => pc' = "round" /\ round' = 1
    /\ pc = "round" => pc' \in {"round", "rank"} /\ round' \in {round, round + 1} /\ round' <= 3
    /\ pc = "round" /\ round' = round + 1 => qi' = 1 /\ pc' = "round"
    /\ pc = "rank" => pc' = (IF final_docs' = << >> THEN "fallback" ELSE "assemble")
    /\ pc = "fallback" => pc' = "assemble"
    /\ pc = "assemble" => pc' = "returned"

\* every search of a round was made with the configuration of its round: the
\* first 3 variants, strict, the base count; variants 4 to 6, lenient, twice
\* the count; the original query, lenient, three times the count; in this order
RoundConfigsFollowed ==
    /\ \A i \in 1..Len(trace.log) :
           LET e == trace.log[i]
           IN  /\ e.round = 1 =>
                      /\ e.pos <= 3 /\ e.query = all_queries[e.pos]
                      /\ e.strict /\ e.n_results = max_results
               /\ e.round = 2 =>
                      /\ e.pos <= 3 /\ e.query = all_queries[3 + e.pos]
                      /\ ~e.strict /\ e.n_results = 2 * max_results
               /\ e.round = 3 =>
                      /\ e.pos = 1 /\ e.query = query
                      /\ ~e.strict /\ e.n_results = 3 * max_results
               /\ e.round \in 1..3
    /\ \A i, j \in 1..Len(trace.log) :
           i < j =>
              \/ trace.log[i].round < trace.log[j].round
              \/ trace.log[i].round = trace.log[j].round /\ trace.log[i].pos < trace.log[j].pos
    /\ trace.fallback => trace.ranked /\ Len(trace.accepted) = 3
    /\ trace.ranked => Len(trace.rank_log) = 1

\* C20: every call goes through EXPAND, rounds 1 to 3 with their
\* configurations (later rounds possibly skipped), RANK, FALLBACK only after
\* an empty RANK, ASSEMBLE, in this order without repeating a stage, and
\* reaches its return.
C20_StagesInOrder ==
    /\ [][StageStep]_vars
    /\ []RoundConfigsFollowed
    /\ <>Returned

\* a call that went through the three rounds, searching seven times, found
\* nothing near enough, and returned what the fallback found
C20_Witness ==
    /\ pc = "returned"
    /\ Len(trace.log) = 7 /\ Len(trace.accepted) = 3
    /\ trace.ranked /\ trace.fallback
    /\ result.num_docs >= 1

\* the threshold of a round for the distances one query was answered with:
\* min(1.0, 2 x best distance) in a strict round, 2.0 in a lenient one
RoundThreshold(strict, distances) ==
    IF strict
    THEN LET twice == 2 * MinDistance(distances) IN IF twice < 100 THEN twice ELSE 100
    ELSE 200

\* the distances the index answered the query q of the running round with
AnsweredDistances(q) ==
    LET config == Round(all_queries, query, max_results, round)
        entries == index[ClassOf(q, all_queries, query)]
    IN  [k \in 1..(IF Len(entries) < config.n_results THEN Len(entries) ELSE config.n_results)
            |-> entries[k].distance]

\* C21: every hit of the round in execution is within the threshold of the
\* query that produced it (min(1.0, 2 x that query's best distance) in a strict
\* round, 2.0 in a lenient round), and no two hits of the round have the same
\* first 100 characters of content.
C21_RoundHitsWithinThresholdDistinctPrefix ==
    pc = "round" =>
        /\ \A i \in 1..Len(round_docs) :
              round_docs[i].distance <=
                  RoundThreshold(Round(all_queries, query, max_results, round).strict,
                                 AnsweredDistances(round_docs[i].query))
        /\ \A i, j \in 1..Len(round_docs) :
              i # j => Prefix(round_docs[i].content.text, 100) # Prefix(round_docs[j].content.text, 100)

\* a strict round has ended with two hits, after its threshold kept a document
\* of its answer out; or a lenient round has ended after a document with the
\* first 100 characters of an accepted one, but not the same document, was
\* kept out
C21_Witness ==
    /\ pc = "round"
    /\ qi > Len(Round(all_queries, query, max_results, round).queries)
    /\ Len(round_docs) >= 2
    /\ \/ /\ round = 1
          /\ \E k \in 1..Len(index["exact"]) :
                /\ ~index["exact"][k].doc.none
                /\ index["exact"][k].distance > RoundThreshold(TRUE, AnsweredDistances(query))
                /\ index["exact"][k].distance <= 200
       \/ /\ round = 3
          /\ \E k \in 1..Len(index["exact"]) :
                /\ ~index["exact"][k].doc.none
                /\ index["exact"][k].distance <= 200
                /\ \A i \in 1..Len(round_docs) : round_docs[i].content # index["exact"][k].doc
                /\ \E i \in 1..Len(round_docs) :
                      Prefix(round_docs[i].content.text, 100) = Prefix(index["exact"][k].doc.text, 100)

\* the positions in docs of the unique hits within the threshold of the
\* three-tier table
WithinPositions(docs) ==
    {k \in UniquePositions(docs) : docs[k].distance <= TierOf(BestUnique(docs))}

\* the leniency rule applies: fewer than 2 unique hits within the threshold,
\* at least 2 unique hits
Lenient(docs) ==
    Cardinality(WithinPositions(docs)) < 2 /\ Cardinality(UniquePositions(docs)) >= 2

\* the positions in docs of the hits the claim says are returned
ClaimedPositions(docs) ==
    IF Lenient(docs)
    THEN {k \in UniquePositions(docs) : PlaceOf(docs, k) <= 5}
    ELSE {k \in WithinPositions(docs) : PlaceOf(docs, k) <= 8}

\* C22: when fewer than 2 unique hits are within the quality threshold and at
\* least 2 unique hits exist, the ranker returns exactly the 5 nearest unique
\* hits (all of them if fewer than 5), whatever the threshold; otherwise it
\* returns the unique hits within the threshold, nearest first, cut to 8.
C22_LeniencyTopFiveElseWithinThreshold ==
    \A c \in 1..Len(trace.rank_log) :
        LET docs == trace.rank_log[c].input
            out == trace.rank_log[c].output
        IN  IF docs = << >> THEN out = << >>
            ELSE /\ Len(out) = Cardinality(ClaimedPositions(docs))
                 /\ \A k \in ClaimedPositions(docs) : out[PlaceOf(docs, k)] = docs[k]

\* one hit within the threshold and six beyond it: the five nearest are
\* returned, four of them beyond the threshold
C22_Witness ==
    /\ Len(trace.rank_log) >= 1
    /\ LET docs == trace.rank_log[1].input
           out == trace.rank_log[1].output
       IN  /\ Len(docs) = 7
           /\ Lenient(docs)
           /\ Cardinality(UniquePositions(docs)) = 7
           /\ Len(out) = 5
           /\ out[5].distance > TierOf(BestUnique(docs))

\* C23: the fallback searcher issues exactly one search, for the original query
\* with a requested count of 4 x max_results, and returns the first max_results
\* hits of the answer whatever their distances (none when the search answers
\* nothing, as a failed search does); no search follows it.
C23_FallbackOneSearchUnfiltered ==
    /\ Len(trace.fallback_log) <= 1
    /\ trace.fallback <=> Len(trace.fallback_log) = 1
    /\ trace.searches = Len(trace.log) + Len(trace.fallback_log)
    /\ trace.fallback => pc \in {"assemble", "returned", "done"}
    /\ \A c \in 1..Len(trace.fallback_log) :
          LET e == trace.fallback_log[c]
              stored == index["exact"]
              answered == IF Len(stored) < 4 * max_results THEN Len(stored) ELSE 4 * max_results
              kept == IF answered < max_results THEN answered ELSE max_results
          IN  /\ e.query = query
              /\ e.n_results = 4 * max_results
              /\ Len(e.returned) = kept
              /\ \A k \in 1..kept :
                    e.returned[k] = [content |-> stored[k].doc, metadata |-> stored[k].metadata,
                                     distance |-> stored[k].distance, query |-> query]

\* the fallback search was answered twelve documents, all farther than 2.0,
\* and returned the first ten
C23_Witness ==
    /\ Len(trace.fallback_log) = 1
    /\ Len(index["exact"]) = 12
    /\ Len(trace.fallback_log[1].returned) = 10
    /\ \A k \in 1..10 : trace.fallback_log[1].returned[k].distance > 200

\* the smallest distance among all the hits of a list that is not empty
BestOfAll(docs) ==
    CHOOSE d \in {docs[k].distance : k \in 1..Len(docs)} :
        \A k \in 1..Len(docs) : d <= docs[k].distance

\* C24 as claimed: on the non-fallback path the reported best_distance is the
\* smallest distance among all the hits accumulated from the executed rounds.
C24_BestDistanceIsMinimumOfAllHits ==
    Returned /\ ~trace.fallback /\ ~trace.raised => result.best_distance = BestOfAll(all_docs)

\* C24 as amended: on the non-fallback path the reported best_distance is the
\* smallest distance among the accumulated hits that are the first of their
\* first-200-character key, which is never below the smallest distance of all
\* accumulated hits; it is 1.0 when the call failed.
C24_BestDistanceIsMinimumOfFirstSeen ==
    Returned /\ ~trace.fallback =>
        /\ all_docs # << >>
        /\ IF trace.raised THEN result.best_distance = 100
           ELSE /\ result.best_distance = BestUnique(all_docs)
                /\ result.best_distance >= BestOfAll(all_docs)

\* a call returned, without the fallback, a best_distance above the distance
\* of an accumulated hit: that hit came after a farther hit of the same key
C24_Witness ==
    /\ Returned /\ ~trace.fallback /\ ~trace.raised
    /\ result.best_distance > BestOfAll(all_docs)
    /\ \E i, j \in 1..Len(all_docs) :
          /\ i < j
          /\ ContentKey(all_docs[i]) = ContentKey(all_docs[j])
          /\ all_docs[j].distance = BestOfAll(all_docs)
          /\ all_docs[i].distance > result.best_distance

\* C25: on every path, the fallback path included, at most 8 documents are
\* handed to the assembler, and the reported num_docs is at most 8.
C25_AtMostEightDocuments ==
    /\ pc \in {"assemble", "returned", "done"} => Len(final_docs) <= 8
    /\ Returned => result.num_docs <= 8

\* C26: the source of every hit whose content was appended to the context,
\* whole or truncated with the ellipsis marker, is in the returned sources.
C26_SourcesCoverAppendedHits ==
    pc = "returned" /\ ~trace.raised =>
        \A i \in 1..Len(trace.used) :
            InList(SourceOf(final_docs[trace.used[i]].metadata), result.sources)

\* the last call was process_message and was answered allowed = true
Accepted == audit.last.op = "process_message" /\ reply.success

\* the last call was process_message and was refused
Refused == audit.last.op = "process_message" /\ ~reply.success

\* the counts of the tracker never exceed the limit, and an allowed answer
\* reports the count it has just made and what remains of the limit
UsageWithinLimit ==
    /\ \A u \in DOMAIN usage_data : usage_data[u].count <= DAILY_MESSAGE_LIMIT
    /\ \A k \in DOMAIN audit.granted : audit.granted[k] <= DAILY_MESSAGE_LIMIT
    /\ Accepted =>
          /\ reply.usage_info.allowed
          /\ reply.usage_info.used = usage_data[audit.last.user_id].count
          /\ reply.usage_info.remaining = DAILY_MESSAGE_LIMIT - reply.usage_info.used
          /\ reply.usage_info.remaining >= 0

\* a call of check_and_increment by a user whose recorded date is not today
\* starts the count of the day from 0: it is allowed and answers used = 1
FirstCallOfDayResets ==
    now' = now + 1 /\ audit'.last.op = "process_message" =>
        LET u == audit'.last.user_id
        IN  u \in DOMAIN usage_data /\ usage_data[u].date # today =>
               /\ usage_data'[u].date = today
               /\ usage_data'[u].count = 1
               /\ reply'.usage_info.allowed
               /\ reply'.usage_info.used = 1

\* C27: after any calls of check_and_increment by any users across day changes,
\* every user's daily count is at most DAILY_MESSAGE_LIMIT, at most
\* DAILY_MESSAGE_LIMIT calls of one user on one day were answered allowed = true,
\* the first call of a new day starts the count from 0, and every allowed
\* answer reports remaining = DAILY_MESSAGE_LIMIT - used.
C27_DailyLimitEnforced == []UsageWithinLimit /\ [][FirstCallOfDayResets]_vars

\* "ann" used up her limit on day 1 and her first call on day 2 was answered
\* used = 1
C27_Witness ==
    /\ today = 2
    /\ Count(audit.granted, << "ann", 1 >>) = DAILY_MESSAGE_LIMIT
    /\ Accepted /\ audit.last.user_id = "ann"
    /\ reply.usage_info.used = 1
    /\ reply.usage_info.remaining = DAILY_MESSAGE_LIMIT - 1
    /\ usage_data["ann"].total_messages >= DAILY_MESSAGE_LIMIT + 1

\* the step is a call of process_message
ProcessMessageStep == now' = now + 1 /\ audit'.last.op = "process_message"

\* the history stored at session_key, empty when there is none
Stored(sess, session_key) == IF session_key \in DOMAIN sess THEN sess[session_key] ELSE << >>

\* a refused call leaves the tracker, every session and the engine alone
RefusedChangesNothing ==
    ProcessMessageStep /\ ~reply'.success =>
        /\ usage_data' = usage_data
        /\ sessions' = sessions
        /\ audit'.rag_calls = audit.rag_calls
        /\ ~audit'.last.rag_called

\* an accepted call counts one message for its user and nobody else, calls the
\* engine once and puts one exchange, stamped with the time of the call and
\* holding the message and the response returned, at the end of its session
AcceptedCountsAndRecordsOnce ==
    ProcessMessageStep /\ reply'.success =>
        LET u == audit'.last.user_id
            k == audit'.last.session_key
            before == get_user_usage(usage_data, u, today)
            after == get_user_usage(usage_data', u, today)
            old == Stored(sessions, k)
            new == Stored(sessions', k)
            n == Len(new)
        IN  /\ after.used = before.used + 1
            /\ after.total_messages = before.total_messages + 1
            /\ \A v \in DOMAIN usage_data' \ {u} : v \in DOMAIN usage_data /\ usage_data'[v] = usage_data[v]
            /\ audit'.rag_calls = audit.rag_calls + 1
            /\ n >= 1
            /\ new[n].timestamp = now'
            /\ new[n].assistant = reply'.response
            /\ SubSeq(new, 1, n - 1) = LastN(old, n - 1)
            /\ Len(old) - (n - 1) \in {0, 1}
            /\ \A j \in DOMAIN sessions' \ {k} : j \in DOMAIN sessions /\ sessions'[j] = sessions[j]
            /\ DOMAIN sessions \subseteq DOMAIN sessions'

\* C28: a call of process_message refused for the daily limit changes neither
\* the daily count nor total_messages of any user, appends to no session and
\* does not call the engine; an accepted call adds exactly 1 to the daily count
\* and to total_messages of its user and appends exactly one exchange to the
\* session of the call, also when the response is the apology of a failed
\* generation
C28_RefusedFrameAcceptedEffect == [][RefusedChangesNothing /\ AcceptedCountsAndRecordsOnce]_vars

\* a call has been refused after a call of this run was accepted with the
\* apology of a failed generation as its response, which is in a session
C28_Witness ==
    /\ Refused
    /\ audit.rag_calls >= 1
    /\ usage_data[audit.last.user_id].count = DAILY_MESSAGE_LIMIT
    /\ \E k \in DOMAIN sessions : \E i \in DOMAIN sessions[k] :
          /\ sessions[k][i].timestamp >= 1
          /\ sessions[k][i].assistant = "I apologize, but I'm experiencing technical difficulties."
          /\ ~sessions[k][i].metadata.has_context

\* the smaller of two numbers
Min2(a, b) == IF a < b THEN a ELSE b

\* every stored session holds, of the exchanges that arrived in it since it was
\* created, the last 50 (all of them when fewer arrived), in arrival order
SessionsHoldMostRecent ==
    \A k \in DOMAIN sessions :
        LET history == sessions[k]
            arrivals == Count(audit.arrived, k)
        IN  /\ Len(history) <= 50
            /\ Len(history) = Min2(arrivals, 50)
            /\ \A i \in DOMAIN history :
                  /\ history[i].timestamp \in DOMAIN audit.owner
                  /\ audit.owner[history[i].timestamp].seq = arrivals - Len(history) + i
            /\ \A i \in 1..(Len(history) - 1) :
                  history[i].timestamp < history[i + 1].timestamp

\* clear_session returns whether the session existed, and none is stored for
\* its arguments afterwards; the other sessions are as they were
ClearSessionReturnsExisted ==
    now' = now + 1 /\ audit'.last.op = "clear_session" =>
        LET k == audit'.last.session_key
        IN  /\ k = get_session_key(audit'.last.user_id, audit'.last.session_id)
            /\ reply'.returned = (k \in DOMAIN sessions)
            /\ k \notin DOMAIN sessions'
            /\ get_session_history(sessions', audit'.last.user_id, audit'.last.session_id, 20) = << >>
            /\ \A j \in DOMAIN sessions \ {k} : j \in DOMAIN sessions' /\ sessions'[j] = sessions[j]
            /\ DOMAIN sessions' \subseteq DOMAIN sessions

\* C29: after any calls of process_message and clear_session every stored
\* session holds at most 50 exchanges, the most recent ones of the session in
\* arrival order; clear_session returns true exactly when the session existed
\* and leaves no history for it
C29_SessionsCappedMostRecentAndCleared ==
    []SessionsHoldMostRecent /\ [][ClearSessionReturnsExisted]_vars

\* clear_session has returned true for a session in which a 51st exchange had
\* arrived, so that the oldest had been dropped; nothing is stored for it now
C29_Witness ==
    /\ audit.last.op = "clear_session"
    /\ reply.returned
    /\ audit.last.session_key = "ann:default"
    /\ "ann:default" \notin DOMAIN sessions
    /\ \E t \in DOMAIN audit.owner : t >= 1 /\ audit.owner[t].seq = 51

\* the user whose message is recorded in the exchange
OwnerOf(exchange) == audit.owner[exchange.timestamp]

\* get_session_history called for a user returns exchanges of that user only
HistoryReturnedIsOwn ==
    \A u \in UserIds : \A s \in SessionIds :
        LET returned == get_session_history(sessions, u, s, 20)
        IN  \A i \in DOMAIN returned : OwnerOf(returned[i]).user_id = u

\* get_user_sessions called for a user lists sessions holding exchanges of
\* that user only
SessionsListedAreOwn ==
    \A u \in UserIds :
        LET listed == get_user_sessions(sessions, u)
        IN  \A i \in DOMAIN listed :
                \A j \in DOMAIN sessions[listed[i].session_key] :
                    OwnerOf(sessions[listed[i].session_key][j]).user_id = u

\* the conversation history handed to the engine for a call holds exchanges
\* recorded for the user and session of that call only
HistoryPassedIsOwn ==
    audit.last.op = "process_message" =>
        \A i \in DOMAIN audit.last.history :
            /\ OwnerOf(audit.last.history[i]).user_id = audit.last.user_id
            /\ OwnerOf(audit.last.history[i]).session_id = audit.last.session_id

\* C30: an exchange recorded for one (user_id, session_id) pair is never
\* returned by get_session_history or get_user_sessions called for a different
\* user_id and never passed as conversation history for a different pair
C30_SessionsIsolated ==
    HistoryReturnedIsOwn /\ SessionsListedAreOwn /\ HistoryPassedIsOwn

=============================================================================
